---- MODULE Spec2Model ----
(***************************************************************************)
(* A model of the Intel 8080 core of src/src/cpu.rs and src/src/register.rs *)
(* as a state machine: the CPU's fields are the variables, run_once and     *)
(* send_interrupt are the actions.  Every effect of an instruction is       *)
(* applied in the order the code applies it, so that a panic (an index      *)
(* beyond the memory buffer, an arithmetic overflow in a build that checks  *)
(* for it) leaves exactly the effects made before it.                       *)
(***************************************************************************)
EXTENDS Integers, Sequences, FiniteSets, TLC

VARIABLES
    flag,              \* CPU.flag: the Flag byte
    registers,         \* CPU.registers: [u8; 6], indices 0..5 = B C D E H L
    acc,               \* CPU.acc
    sp,                \* CPU.sp: u16
    pc,                \* CPU.pc: u16
    data,              \* CPU.data: the non-zero bytes of the Vec<u8>, by address
    data_len,          \* CPU.data.len()
    interrupted,       \* CPU.interrupted
    interrupted_addr,  \* CPU.interrupted_addr
    halted,            \* CPU.halted
    panicked,          \* the thread has panicked inside a call on the CPU
    overflow_checks,   \* the build panics on integer overflow (debug) or wraps (release)
    trace,             \* history: one record per call made on the CPU so far
    steps_left,        \* how many more run_once calls the driver makes
    requests_left      \* how many more send_interrupt calls the driver makes

vars == <<flag, registers, acc, sp, pc, data, data_len, interrupted,
          interrupted_addr, halted, panicked, overflow_checks, trace,
          steps_left, requests_left>>

(***************************************************************************)
(* Bounds of the exploration.                                              *)
(***************************************************************************)
MaxSteps == 4
MaxRequests == 1
AluSteps == 1

(***************************************************************************)
(* Bytes, words and bit operations.                                        *)
(***************************************************************************)
U8 == 0..255

Bit(x, i) == (x \div (2 ^ i)) % 2

And8(x, y) ==
    LET b(i) == Bit(x, i) * Bit(y, i)
    IN  b(0) + 2 * b(1) + 4 * b(2) + 8 * b(3) + 16 * b(4) + 32 * b(5)
        + 64 * b(6) + 128 * b(7)

Or8(x, y) ==
    LET b(i) == IF Bit(x, i) + Bit(y, i) > 0 THEN 1 ELSE 0
    IN  b(0) + 2 * b(1) + 4 * b(2) + 8 * b(3) + 16 * b(4) + 32 * b(5)
        + 64 * b(6) + 128 * b(7)

Xor8(x, y) ==
    LET b(i) == (Bit(x, i) + Bit(y, i)) % 2
    IN  b(0) + 2 * b(1) + 4 * b(2) + 8 * b(3) + 16 * b(4) + 32 * b(5)
        + 64 * b(6) + 128 * b(7)

count_ones(x) ==
    Bit(x, 0) + Bit(x, 1) + Bit(x, 2) + Bit(x, 3) + Bit(x, 4) + Bit(x, 5)
    + Bit(x, 6) + Bit(x, 7)

rotate_left(x) == ((x * 2) % 256) + (x \div 128)

rotate_right(x) == (x \div 2) + ((x % 2) * 128)

wrapping_add(x, y) == (x + y) % 256

wrapping_sub(x, y) == (x + 256 - y) % 256

make_address(val1, val2) == (val1 * 256) + val2

compose_to_u16(val1, val2) == (val1 * 256) + val2

\* A variant that returns the low byte first.
decompose_to_u8_LowFirst(val) == <<val % 256, (val \div 256) % 256>>

decompose_to_u8(val) == <<(val \div 256) % 256, val % 256>>

(***************************************************************************)
(* register.rs: the Flag byte.                                             *)
(***************************************************************************)
FlagDefault == 2

SetMask(f, m, b) == IF b THEN Or8(f, m) ELSE And8(f, 255 - m)

set_carry_flag(f, b) == SetMask(f, 1, b)
carry_flag(f) == And8(f, 1) = 1

set_parity_flag(f, b) == SetMask(f, 4, b)
parity_flag(f) == And8(f, 4) = 4

set_auxiliary_carry_flag(f, b) == SetMask(f, 16, b)
auxiliary_flag(f) == And8(f, 16) = 16

set_zero_flag(f, b) == SetMask(f, 64, b)
zero_flag(f) == And8(f, 64) = 64

set_sign_flag(f, b) == SetMask(f, 128, b)
sign_flag(f) == And8(f, 128) = 128

(***************************************************************************)
(* The CPU as one record, so that the code's helpers are operators from    *)
(* CPU to CPU.  A panicked CPU is left alone by every helper: the effects  *)
(* the code would have made after the panic are never made.                *)
(***************************************************************************)
Cur ==
    [flag |-> flag, registers |-> registers, acc |-> acc, sp |-> sp, pc |-> pc,
     data |-> data, len |-> data_len, interrupted |-> interrupted,
     interrupted_addr |-> interrupted_addr, halted |-> halted,
     panicked |-> panicked, oc |-> overflow_checks]

Panic(c) == [c EXCEPT !.panicked = TRUE]

\* self.data[a] as a value (a within the buffer).
Rd(c, a) == IF a \in DOMAIN c.data THEN c.data[a] ELSE 0

\* The bounds check of an index expression self.data[a].
Index(c, a) ==
    IF c.panicked THEN c
    ELSE IF a >= 0 /\ a < c.len THEN c ELSE Panic(c)

\* self.data[a] = v
Store(c, a, v) ==
    IF c.panicked THEN c
    ELSE IF ~(a >= 0 /\ a < c.len) THEN Panic(c)
    ELSE IF v = 0
         THEN [c EXCEPT !.data = [x \in (DOMAIN c.data) \ {a} |-> c.data[x]]]
         ELSE [c EXCEPT !.data = (a :> v) @@ c.data]

\* self.pc += k
AddPc(c, k) ==
    IF c.panicked THEN c
    ELSE IF c.pc + k > 65535
         THEN IF c.oc THEN Panic(c) ELSE [c EXCEPT !.pc = (c.pc + k) % 65536]
         ELSE [c EXCEPT !.pc = c.pc + k]

\* self.sp += 1
IncSp(c) ==
    IF c.panicked THEN c
    ELSE IF c.sp = 65535
         THEN IF c.oc THEN Panic(c) ELSE [c EXCEPT !.sp = 0]
         ELSE [c EXCEPT !.sp = c.sp + 1]

\* self.sp -= 1
DecSp(c) ==
    IF c.panicked THEN c
    ELSE IF c.sp = 0
         THEN IF c.oc THEN Panic(c) ELSE [c EXCEPT !.sp = 65535]
         ELSE [c EXCEPT !.sp = c.sp - 1]

SetReg(c, i, v) == IF c.panicked THEN c ELSE [c EXCEPT !.registers[i] = v]

SetAcc(c, v) == IF c.panicked THEN c ELSE [c EXCEPT !.acc = v]

SetFlag(c, f) == IF c.panicked THEN c ELSE [c EXCEPT !.flag = f]

SetPc(c, v) == IF c.panicked THEN c ELSE [c EXCEPT !.pc = v]

SetSp(c, v) == IF c.panicked THEN c ELSE [c EXCEPT !.sp = v]

memory_address(c) == make_address(c.registers[4], c.registers[5])

\* The bounds check register_or_memory_data / set_register_or_memory_data
\* makes: only the memory register indexes the buffer.
RegIndex(c, reg) == IF reg = 6 THEN Index(c, memory_address(c)) ELSE c

register_or_memory_data(c, reg) ==
    IF reg = 6 THEN Rd(c, memory_address(c))
    ELSE IF reg = 7 THEN c.acc
    ELSE c.registers[reg]

set_register_or_memory_data(c, reg, v) ==
    IF reg = 6 THEN Store(c, memory_address(c), v)
    ELSE IF reg = 7 THEN SetAcc(c, v)
    ELSE SetReg(c, reg, v)

update_zero_flag(f, val) == set_zero_flag(f, val = 0)

update_sign_flag(f, val) == set_sign_flag(f, val > 127)

\* A variant that sets P on an odd number of one bits.
update_parity_flag_Odd(f, val) == set_parity_flag(f, count_ones(val) % 2 = 1)

update_parity_flag(f, val) == set_parity_flag(f, count_ones(val) % 2 = 0)

update_carry_flag_with_carry(f, val1, val2, carry) ==
    set_carry_flag(f, val1 + val2 + carry > 255)

update_aux_flag(f, val1, val2) ==
    set_auxiliary_carry_flag(f, (val1 % 16) + (val2 % 16) > 15)

\* A variant that leaves the incoming carry out of the nibble sum.
update_aux_flag_with_carry_NoCarry(f, val1, val2, carry) ==
    update_aux_flag(f, val1, val2)

update_aux_flag_with_carry(f, val1, val2, carry) ==
    set_auxiliary_carry_flag(f, (val1 % 16) + (val2 % 16) + carry > 15)

stack_push_u8(c, val) ==
    LET c1 == DecSp(c)
    IN  Store(c1, c1.sp, val)

\* stack_pop_u8: the byte it returns, and the CPU it leaves.
stack_pop_u8_val(c) == Rd(c, c.sp)
stack_pop_u8(c) == IncSp(Index(c, c.sp))

stack_push(c, val) ==
    LET d == decompose_to_u8(val)
    IN  stack_push_u8(stack_push_u8(c, d[1]), d[2])

stack_pop_val(c) ==
    LET val1 == stack_pop_u8_val(c)
        c1 == stack_pop_u8(c)
        val2 == stack_pop_u8_val(c1)
    IN  compose_to_u16(val2, val1)
stack_pop(c) == stack_pop_u8(stack_pop_u8(c))

op_return(c) == SetPc(stack_pop(c), stack_pop_val(c))

op_call(c) ==
    LET c1 == stack_push(c, c.pc)
        c2 == Index(Index(c1, c1.pc - 2), c1.pc - 1)
    IN  SetPc(c2, compose_to_u16(Rd(c1, c1.pc - 1), Rd(c1, c1.pc - 2)))

set_jump_pc(c) ==
    LET c1 == Index(Index(c, c.pc - 1), c.pc - 2)
    IN  SetPc(c1, compose_to_u16(Rd(c, c.pc - 1), Rd(c, c.pc - 2)))

(***************************************************************************)
(* The opcode classifier (crate::opcode): the instruction a byte encodes,  *)
(* named as execute's match arms name it, and the encoded fields.          *)
(***************************************************************************)
get_dest_num(op) == (op \div 8) % 8

get_src_num(op) == op % 8

get_rp_num_2(op) == (op \div 16) % 4

get_rp_num(op) == (op \div 16) % 4

OpcodeFrom(b) ==
    CASE b = \H00 -> "NOP"
      [] b \in {\H01, \H11, \H21, \H31} -> "LXI"
      [] b \in {\H02, \H12} -> "STAX"
      [] b \in {\H0A, \H1A} -> "LDAX"
      [] b = \H32 -> "STA"
      [] b = \H3A -> "LDA"
      [] b = \H22 -> "SHLD"
      [] b = \H2A -> "LHLD"
      [] b \in {\H03, \H13, \H23, \H33} -> "INX"
      [] b \in {\H0B, \H1B, \H2B, \H3B} -> "DCX"
      [] b \in {\H09, \H19, \H29, \H39} -> "DAD"
      [] b < \H40 /\ b % 8 = 4 -> "INR"
      [] b < \H40 /\ b % 8 = 5 -> "DCR"
      [] b < \H40 /\ b % 8 = 6 -> "MVI"
      [] b = \H07 -> "RLC"
      [] b = \H0F -> "RRC"
      [] b = \H17 -> "RAL"
      [] b = \H1F -> "RAR"
      [] b = \H27 -> "DAA"
      [] b = \H2F -> "CMA"
      [] b = \H37 -> "STC"
      [] b = \H3F -> "CMC"
      [] b = \H76 -> "HLT"
      [] b >= \H40 /\ b < \HC0 /\ b # \H76 -> "other"
      [] b = \HC0 -> "RNZ"
      [] b = \HC8 -> "RZ"
      [] b = \HD0 -> "RNC"
      [] b = \HD8 -> "RC"
      [] b = \HE0 -> "RPO"
      [] b = \HE8 -> "RPE"
      [] b = \HF0 -> "RP"
      [] b = \HF8 -> "RM"
      [] b = \HC9 -> "RET"
      [] b = \HC2 -> "JNZ"
      [] b = \HCA -> "JZ"
      [] b = \HD2 -> "JNC"
      [] b = \HDA -> "JC"
      [] b = \HE2 -> "JPO"
      [] b = \HEA -> "JPE"
      [] b = \HF2 -> "JP"
      [] b = \HFA -> "JM"
      [] b = \HC3 -> "JMP"
      [] b = \HC4 -> "CNZ"
      [] b = \HCC -> "CZ"
      [] b = \HD4 -> "CNC"
      [] b = \HDC -> "CC"
      [] b = \HE4 -> "CPO"
      [] b = \HEC -> "CPE"
      [] b = \HF4 -> "CP"
      [] b = \HFC -> "CM"
      [] b = \HCD -> "CALL"
      [] b \in {\HC1, \HD1, \HE1, \HF1} -> "POP"
      [] b \in {\HC5, \HD5, \HE5, \HF5} -> "PUSH"
      [] b = \HC6 -> "ADI"
      [] b = \HCE -> "ACI"
      [] b = \HD6 -> "SUI"
      [] b = \HDE -> "SBI"
      [] b = \HE6 -> "ANI"
      [] b = \HEE -> "XRI"
      [] b = \HF6 -> "ORI"
      [] b = \HFE -> "CPI"
      [] b >= \HC0 /\ b % 8 = 7 -> "RST"
      [] b = \HD3 -> "OUT"
      [] b = \HDB -> "IN"
      [] b = \HE3 -> "XTHL"
      [] b = \HEB -> "XCHG"
      [] b = \HF3 -> "DI"
      [] b = \HFB -> "EI"
      [] b = \HF9 -> "SPHL"
      [] OTHER -> "undefined"

(***************************************************************************)
(* execute, one operator per match arm (or group of arms with one body).   *)
(***************************************************************************)
ExecNOP(c, op) == AddPc(c, 1)

\* A variant that loads the pair low byte first: the low register from
\* the first operand byte, the high register from the second.
ExecLXI_LittleEndian(c, op) ==
    LET rp == get_rp_num_2(op)
        p == c.pc
        regs == SetReg(Index(SetReg(Index(c, p + 1), rp * 2 + 1, Rd(c, p + 1)),
                             p + 2), rp * 2, Rd(c, p + 2))
        stk == SetSp(Index(Index(c, p + 1), p + 2),
                     (((Rd(c, p + 1) * 256) % 65536) + Rd(c, p + 2)) % 65536)
    IN  AddPc(IF rp # 3 THEN regs ELSE stk, 3)

ExecLXI(c, op) ==
    LET rp == get_rp_num_2(op)
        p == c.pc
        regs == SetReg(Index(SetReg(Index(c, p + 1), rp * 2, Rd(c, p + 1)),
                             p + 2), rp * 2 + 1, Rd(c, p + 2))
        stk == SetSp(Index(Index(c, p + 1), p + 2),
                     (((Rd(c, p + 1) * 256) % 65536) + Rd(c, p + 2)) % 65536)
    IN  AddPc(IF rp # 3 THEN regs ELSE stk, 3)

ExecSTAX(c, op) ==
    LET c1 == AddPc(c, 1)
        reg1 == get_rp_num(op) * 2
    IN  Store(c1, make_address(c1.registers[reg1], c1.registers[reg1 + 1]), c1.acc)

ExecSTA(c, op) ==
    LET c1 == Index(Index(c, c.pc + 1), c.pc + 2)
        addr == make_address(Rd(c, c.pc + 2), Rd(c, c.pc + 1))
    IN  Store(AddPc(c1, 3), addr, c.acc)

ExecLDAX(c, op) ==
    LET c1 == AddPc(c, 1)
        reg1 == get_rp_num(op) * 2
        addr == make_address(c1.registers[reg1], c1.registers[reg1 + 1])
    IN  SetAcc(Index(c1, addr), Rd(c1, addr))

ExecLDA(c, op) ==
    LET c1 == Index(Index(c, c.pc + 1), c.pc + 2)
        addr == make_address(Rd(c, c.pc + 2), Rd(c, c.pc + 1))
    IN  SetAcc(Index(AddPc(c1, 3), addr), Rd(c, addr))

\* inc(val1, val2): val1 += 1 overflows when the high byte is 0xFF.
ExecINX(c, op) ==
    LET rp == get_rp_num_2(op)
        reg1 == rp * 2
        val1 == c.registers[reg1]
        val2 == c.registers[reg1 + 1]
        b == val2 = 255
        pair == IF b /\ val1 = 255 /\ c.oc THEN Panic(c)
                ELSE SetReg(SetReg(c, reg1, IF b THEN (val1 + 1) % 256 ELSE val1),
                            reg1 + 1, (val2 + 1) % 256)
    IN  AddPc(IF rp # 3 THEN pair ELSE IncSp(c), 1)

\* dec(val1, val2): val1 -= 1 overflows when the high byte is 0.
ExecDCX(c, op) ==
    LET rp == get_rp_num_2(op)
        reg1 == rp * 2
        val1 == c.registers[reg1]
        val2 == c.registers[reg1 + 1]
        b == val2 = 0
        pair == IF b /\ val1 = 0 /\ c.oc THEN Panic(c)
                ELSE SetReg(SetReg(c, reg1, IF b THEN (val1 + 255) % 256 ELSE val1),
                            reg1 + 1, (val2 + 255) % 256)
    IN  AddPc(IF rp # 3 THEN pair ELSE DecSp(c), 1)

\* A variant that sets the carry flag when the increment wraps.
ExecINR_SetsCarry(c, op) ==
    LET reg == get_dest_num(op)
        c1 == RegIndex(c, reg)
        old == register_or_memory_data(c, reg)
        val == wrapping_add(old, 1)
        f == update_parity_flag(update_zero_flag(update_sign_flag(
                 set_auxiliary_carry_flag(set_carry_flag(c.flag, old = 255),
                                          old % 16 = 15), val), val), val)
    IN  AddPc(set_register_or_memory_data(SetFlag(c1, f), reg, val), 1)

ExecINR(c, op) ==
    LET reg == get_dest_num(op)
        c1 == RegIndex(c, reg)
        old == register_or_memory_data(c, reg)
        val == wrapping_add(old, 1)
        f == update_parity_flag(update_zero_flag(update_sign_flag(
                 set_auxiliary_carry_flag(c.flag, old % 16 = 15), val), val), val)
    IN  AddPc(set_register_or_memory_data(SetFlag(c1, f), reg, val), 1)

ExecDCR(c, op) ==
    LET reg == get_dest_num(op)
        c1 == RegIndex(c, reg)
        old == register_or_memory_data(c, reg)
        val == wrapping_sub(old, 1)
        f == update_parity_flag(update_zero_flag(update_sign_flag(
                 set_auxiliary_carry_flag(c.flag, old % 16 = 15), val), val), val)
    IN  AddPc(set_register_or_memory_data(SetFlag(c1, f), reg, val), 1)

ExecMVI(c, op) ==
    LET val == Rd(c, c.pc + 1)
    IN  set_register_or_memory_data(AddPc(Index(c, c.pc + 1), 2),
                                    get_dest_num(op), val)

ExecRLC(c, op) ==
    SetAcc(SetFlag(AddPc(c, 1), set_carry_flag(c.flag, c.acc >= 128)),
           rotate_left(c.acc))

ExecRRC(c, op) ==
    SetAcc(SetFlag(AddPc(c, 1), set_carry_flag(c.flag, c.acc % 2 # 0)),
           rotate_right(c.acc))

\* b = self.acc | 1 is never zero.
ExecRAL(c, op) ==
    LET a == rotate_left(c.acc)
        b == Or8(a, 1)
        a2 == IF carry_flag(c.flag) THEN Or8(a, 1) ELSE And8(a, 254)
    IN  SetFlag(SetAcc(AddPc(c, 1), a2), set_carry_flag(c.flag, b # 0))

\* A variant that rotates the accumulator alone, as RRC does.
ExecRAR_AccumulatorOnly(c, op) ==
    SetAcc(SetFlag(AddPc(c, 1), set_carry_flag(c.flag, c.acc % 2 # 0)),
           rotate_right(c.acc))

ExecRAR(c, op) ==
    LET a == rotate_right(c.acc)
        b == And8(a, 128)
        a2 == IF carry_flag(c.flag) THEN Or8(a, 128) ELSE And8(a, 127)
    IN  SetFlag(SetAcc(AddPc(c, 1), a2), set_carry_flag(c.flag, b # 0))

\* A variant that drops the carry of the low bytes.
ExecDAD_DropsLowCarry(c, op) ==
    LET rp == get_rp_num_2(op)
        reg1 == rp * 2
        c1 == SetReg(c, 5, (c.registers[5] + c.registers[reg1 + 1]) % 256)
        sum2 == c1.registers[4] + c1.registers[reg1]
        pair == SetReg(SetFlag(c1, set_carry_flag(c.flag, sum2 > 255)),
                       4, sum2 % 256)
        d == decompose_to_u8((memory_address(c) + c.sp) % 65536)
        stk == SetReg(SetReg(c, 4, d[1]), 5, d[2])
    IN  AddPc(IF rp # 3 THEN pair ELSE stk, 1)

ExecDAD(c, op) ==
    LET rp == get_rp_num_2(op)
        reg1 == rp * 2
        h == c.registers[4]
        l == c.registers[5]
        sum1 == l + c.registers[reg1 + 1]
        b == sum1 > 255
        c1 == SetReg(c, 5, sum1 % 256)
        \* the low bytes carried: (reg1 + 1) + H, the carry flag from the last add
        res2 == (c1.registers[reg1] + 1) % 256
        sum3 == res2 + c1.registers[4]
        \* no carry from the low bytes: H + reg1
        sum2 == c1.registers[4] + c1.registers[reg1]
        pair == IF b
                THEN SetReg(SetFlag(c1, set_carry_flag(c.flag, sum3 > 255)),
                            4, sum3 % 256)
                ELSE SetReg(SetFlag(c1, set_carry_flag(c.flag, sum2 > 255)),
                            4, sum2 % 256)
        d == decompose_to_u8((memory_address(c) + c.sp) % 65536)
        stk == SetReg(SetReg(c, 4, d[1]), 5, d[2])
    IN  AddPc(IF rp # 3 THEN pair ELSE stk, 1)

ExecSHLD(c, op) ==
    LET c1 == Index(Index(c, c.pc + 1), c.pc + 2)
        addr == make_address(Rd(c, c.pc + 2), Rd(c, c.pc + 1))
    IN  Store(Store(AddPc(c1, 3), addr, c.registers[5]), addr + 1, c.registers[4])

ExecLHLD(c, op) ==
    LET c1 == Index(Index(c, c.pc + 1), c.pc + 2)
        addr == make_address(Rd(c, c.pc + 2), Rd(c, c.pc + 1))
        c2 == SetReg(Index(AddPc(c1, 3), addr), 5, Rd(c, addr))
    IN  SetReg(Index(c2, addr + 1), 4, Rd(c, addr + 1))

ExecCMA(c, op) == SetAcc(AddPc(c, 1), Xor8(c.acc, 255))

ExecCMC(c, op) ==
    SetFlag(AddPc(c, 1), set_carry_flag(c.flag, ~carry_flag(c.flag)))

ExecSTC(c, op) == SetFlag(AddPc(c, 1), set_carry_flag(c.flag, TRUE))

\* self.acc += 6 is a checked addition; the high-nibble correction is built
\* from shifts and cannot overflow.
ExecDAA(c, op) ==
    LET c1 == AddPc(c, 1)
        low == c.acc % 16
        add6 == low >= 10 \/ auxiliary_flag(c.flag)
        c2 == IF add6 /\ c.acc + 6 > 255 /\ c.oc THEN Panic(c1)
              ELSE IF low >= 10
                   THEN SetFlag(SetAcc(c1, (c.acc + 6) % 256),
                                set_auxiliary_carry_flag(c.flag, TRUE))
                   ELSE IF auxiliary_flag(c.flag)
                        THEN SetFlag(SetAcc(c1, (c.acc + 6) % 256),
                                     set_auxiliary_carry_flag(c.flag, FALSE))
                        ELSE c1
        high == c2.acc \div 16
        c3 == IF high >= 10
              THEN SetFlag(SetAcc(c2, ((high - 10) * 16) + (c2.acc % 16)),
                           set_carry_flag(c2.flag, TRUE))
              ELSE IF carry_flag(c2.flag)
                   THEN SetAcc(c2, (((high + 6) * 16) % 256) + (c2.acc % 16))
                   ELSE c2
    IN  SetFlag(c3, update_sign_flag(update_parity_flag(
                        update_zero_flag(c3.flag, c3.acc), c3.acc), c3.acc))

ExecIN(c, op) == AddPc(Index(c, c.pc + 1), 2)

ExecOUT(c, op) == AddPc(Index(c, c.pc + 1), 2)

ExecHLT(c, op) ==
    LET c1 == AddPc(c, 1)
    IN  IF c1.panicked THEN c1 ELSE [c1 EXCEPT !.halted = TRUE]

\* A variant of EI that only advances PC, leaving the enable to a later
\* step.
ExecEI_NoEnable(c, op) == AddPc(c, 1)

ExecEI(c, op) ==
    LET c1 == AddPc(c, 1)
    IN  IF c1.panicked THEN c1 ELSE [c1 EXCEPT !.interrupted = TRUE]

ExecDI(c, op) ==
    LET c1 == AddPc(c, 1)
    IN  IF c1.panicked THEN c1 ELSE [c1 EXCEPT !.interrupted = FALSE]

\* Mutant of ExecRST: the address pushed is the RST's own.
ExecRST_PushesOwnAddress(c, op) ==
    SetPc(stack_push(AddPc(c, 1), c.pc), And8(op, 56))

ExecRST(c, op) ==
    LET c1 == AddPc(c, 1)
    IN  SetPc(stack_push(c1, c1.pc), And8(op, 56))

ExecXCHG(c, op) ==
    LET r == c.registers
    IN  SetReg(SetReg(SetReg(SetReg(AddPc(c, 1), 2, r[4]), 3, r[5]), 4, r[2]),
               5, r[3])

\* XTHL with the two stack bytes loaded into the wrong registers.
ExecXTHL_Crossed(c, op) ==
    LET c1 == AddPc(c, 1)
        l == stack_pop_u8_val(c1)
        c2 == stack_pop_u8(c1)
        h == stack_pop_u8_val(c2)
        c3 == stack_pop_u8(c2)
        c4 == stack_push_u8(stack_push_u8(c3, c.registers[4]), c.registers[5])
    IN  SetReg(SetReg(c4, 4, l), 5, h)

ExecXTHL(c, op) ==
    LET c1 == AddPc(c, 1)
        l == stack_pop_u8_val(c1)
        c2 == stack_pop_u8(c1)
        h == stack_pop_u8_val(c2)
        c3 == stack_pop_u8(c2)
        c4 == stack_push_u8(stack_push_u8(c3, c.registers[4]), c.registers[5])
    IN  SetReg(SetReg(c4, 4, h), 5, l)

\* PUSH with the two bytes of the pair stacked in the opposite order.
ExecPUSH_LowFirst(c, op) ==
    LET c1 == AddPc(c, 1)
        rp == get_rp_num_2(op)
    IN  IF rp # 3
        THEN stack_push_u8(stack_push_u8(c1, c.registers[rp * 2 + 1]),
                           c.registers[rp * 2])
        ELSE stack_push_u8(stack_push_u8(c1, c.flag), c.acc)

ExecPUSH(c, op) ==
    LET c1 == AddPc(c, 1)
        rp == get_rp_num_2(op)
    IN  IF rp # 3
        THEN stack_push_u8(stack_push_u8(c1, c.registers[rp * 2]),
                           c.registers[rp * 2 + 1])
        ELSE stack_push_u8(stack_push_u8(c1, c.acc), c.flag)

\* Mutant of ExecPOP: the first byte popped goes to the pair's high
\* register (to A for PSW), the second to the low one (to the flags).
ExecPOP_HighFirst(c, op) ==
    LET c1 == AddPc(c, 1)
        rp == get_rp_num_2(op)
        v1 == stack_pop_u8_val(c1)
        c2 == IF rp # 3 THEN SetReg(stack_pop_u8(c1), rp * 2, v1)
              ELSE SetAcc(stack_pop_u8(c1), v1)
        v2 == stack_pop_u8_val(c2)
    IN  IF rp # 3 THEN SetReg(stack_pop_u8(c2), rp * 2 + 1, v2)
        ELSE SetFlag(stack_pop_u8(c2), v2)

ExecPOP(c, op) ==
    LET c1 == AddPc(c, 1)
        rp == get_rp_num_2(op)
        v1 == stack_pop_u8_val(c1)
        c2 == IF rp # 3 THEN SetReg(stack_pop_u8(c1), rp * 2 + 1, v1)
              ELSE SetFlag(stack_pop_u8(c1), v1)
        v2 == stack_pop_u8_val(c2)
    IN  IF rp # 3 THEN SetReg(stack_pop_u8(c2), rp * 2, v2)
        ELSE SetAcc(stack_pop_u8(c2), v2)

\* S, Z and P from a result, as every ALU arm sets them.
UpdateSZP(f, val) ==
    update_sign_flag(update_zero_flag(update_parity_flag(f, val), val), val)

\* The immediate ALU arms: the operand byte, then pc += 2, then the arm's
\* new accumulator and flags.
\* The immediate form that steps over its opcode only.
Immediate_OneByte(c, a, f) ==
    SetFlag(SetAcc(AddPc(Index(c, c.pc + 1), 1), a), f)

Immediate(c, a, f) == SetFlag(SetAcc(AddPc(Index(c, c.pc + 1), 2), a), f)

ExecADI(c, op) ==
    LET x == Rd(c, c.pc + 1)
        a == wrapping_add(c.acc, x)
    IN  Immediate(c, a, UpdateSZP(update_aux_flag(
            set_carry_flag(c.flag, c.acc + x > 255), c.acc, x), a))

ExecACI(c, op) ==
    LET x == Rd(c, c.pc + 1)
        carry == IF carry_flag(c.flag) THEN 1 ELSE 0
        a == wrapping_add(wrapping_add(c.acc, x), carry)
    IN  Immediate(c, a, UpdateSZP(update_aux_flag_with_carry(
            update_carry_flag_with_carry(c.flag, c.acc, x, carry),
            c.acc, x, carry), a))

ExecSUI(c, op) ==
    LET x == Rd(c, c.pc + 1)
        a == wrapping_sub(c.acc, x)
    IN  Immediate(c, a, UpdateSZP(set_auxiliary_carry_flag(
            set_carry_flag(c.flag, c.acc < x), (c.acc % 16) >= (x % 16)), a))

ExecSBI(c, op) ==
    LET x == Rd(c, c.pc + 1)
        carry == IF carry_flag(c.flag) THEN 1 ELSE 0
        a == wrapping_sub(wrapping_sub(c.acc, x), carry)
    IN  Immediate(c, a, UpdateSZP(set_auxiliary_carry_flag(
            set_carry_flag(c.flag, c.acc < x + carry),
            (c.acc % 16) < (x % 16) + carry), a))

ExecANI(c, op) ==
    LET a == And8(c.acc, Rd(c, c.pc + 1))
    IN  Immediate(c, a, UpdateSZP(set_carry_flag(c.flag, FALSE), a))

ExecXRI(c, op) ==
    LET a == Xor8(c.acc, Rd(c, c.pc + 1))
    IN  Immediate(c, a, UpdateSZP(set_carry_flag(c.flag, FALSE), a))

ExecORI(c, op) ==
    LET a == Or8(c.acc, Rd(c, c.pc + 1))
    IN  Immediate(c, a, UpdateSZP(set_carry_flag(c.flag, FALSE), a))

ExecCPI(c, op) ==
    LET x == Rd(c, c.pc + 1)
        res == wrapping_sub(c.acc, x)
    IN  Immediate(c, c.acc, UpdateSZP(set_auxiliary_carry_flag(
            set_carry_flag(c.flag, c.acc < x), (c.acc % 16) < (x % 16)), res))

\* The flag test of each conditional arm.
Condition(tag, f) ==
    CASE tag \in {"JC", "CC", "RC"} -> carry_flag(f)
      [] tag \in {"JNC", "CNC", "RNC"} -> ~carry_flag(f)
      [] tag \in {"JZ", "CZ", "RZ"} -> zero_flag(f)
      [] tag \in {"JNZ", "CNZ", "RNZ"} -> ~zero_flag(f)
      [] tag \in {"JM", "CM", "RM"} -> sign_flag(f)
      [] tag \in {"JP", "CP", "RP"} -> ~sign_flag(f)
      [] tag \in {"JPE", "CPE", "RPE"} -> parity_flag(f)
      [] tag \in {"JPO", "CPO", "RPO"} -> ~parity_flag(f)

ExecJMP(c, op) == set_jump_pc(AddPc(c, 3))

\* The conditional jump with the sense of its condition reversed.
ExecJcc_Inverted(c, op) ==
    LET c1 == AddPc(c, 3)
    IN  IF Condition(OpcodeFrom(op), c.flag) THEN c1 ELSE set_jump_pc(c1)

ExecJcc(c, op) ==
    LET c1 == AddPc(c, 3)
    IN  IF Condition(OpcodeFrom(op), c.flag) THEN set_jump_pc(c1) ELSE c1

\* Mutant of ExecCALL: the call happens before pc += 3, so the address
\* pushed is the CALL's own.
ExecCALL_PushesOwnAddress(c, op) ==
    LET c1 == stack_push(c, c.pc)
        c2 == Index(Index(c1, c.pc + 1), c.pc + 2)
    IN  SetPc(c2, compose_to_u16(Rd(c1, c.pc + 2), Rd(c1, c.pc + 1)))

ExecCALL(c, op) == op_call(AddPc(c, 3))

\* Mutant of ExecCcc: the return address is pushed before the condition
\* is tested.
ExecCcc_PushesFirst(c, op) ==
    LET c1 == AddPc(c, 3)
    IN  IF Condition(OpcodeFrom(op), c.flag) THEN op_call(c1)
        ELSE stack_push(c1, c1.pc)

ExecCcc(c, op) ==
    LET c1 == AddPc(c, 3)
    IN  IF Condition(OpcodeFrom(op), c.flag) THEN op_call(c1) ELSE c1

ExecRET(c, op) == op_return(AddPc(c, 1))

ExecRcc(c, op) ==
    LET c1 == AddPc(c, 1)
    IN  IF Condition(OpcodeFrom(op), c.flag) THEN op_return(c1) ELSE c1

ExecSPHL(c, op) == SetSp(AddPc(c, 1), memory_address(c))

(***************************************************************************)
(* The arm `other`: MOV and the register-form ALU group.  Each ALU arm is  *)
(* an operator from (acc, flag, data) to the new <<acc, flag>>.            *)
(***************************************************************************)
AluADD(a, f, x) ==
    LET r == wrapping_add(a, x)
    IN  <<r, UpdateSZP(set_carry_flag(update_aux_flag(f, a, x), a + x > 255), r)>>

AluADC(a, f, x) ==
    LET carry == IF carry_flag(f) THEN 1 ELSE 0
        r == wrapping_add(wrapping_add(a, x), carry)
    IN  <<r, UpdateSZP(update_carry_flag_with_carry(
                 update_aux_flag_with_carry(f, a, x, carry), a, x, carry), r)>>

AluSUB(a, f, x) ==
    LET r == wrapping_sub(a, x)
    IN  <<r, UpdateSZP(set_carry_flag(
                 set_auxiliary_carry_flag(f, a >= x), a < x), r)>>

AluSBB(a, f, x) ==
    LET carry == IF carry_flag(f) THEN 1 ELSE 0
        f1 == set_auxiliary_carry_flag(f, (a % 16) >= (x % 16) + carry)
        x1 == wrapping_add(x, carry)
        r == wrapping_sub(a, x1)
    IN  <<r, UpdateSZP(set_carry_flag(f1, a < x1), r)>>

\* A variant that leaves the carry flag as it was.
AluANA_KeepsCarry(a, f, x) ==
    LET r == And8(a, x)
    IN  <<r, UpdateSZP(f, r)>>

AluANA(a, f, x) ==
    LET r == And8(a, x)
    IN  <<r, UpdateSZP(set_carry_flag(f, FALSE), r)>>

AluXRA(a, f, x) ==
    LET r == Xor8(a, x)
    IN  <<r, UpdateSZP(set_carry_flag(f, FALSE), r)>>

AluORA(a, f, x) ==
    LET r == Or8(a, x)
    IN  <<r, UpdateSZP(set_carry_flag(f, FALSE), r)>>

\* A variant that compares the low nibbles for AC, as CPI does.
AluCMP_NibbleAux(a, f, x) ==
    LET r == wrapping_sub(a, x)
    IN  <<a, UpdateSZP(set_carry_flag(
                 set_auxiliary_carry_flag(f, (a % 16) < (x % 16)), a < x), r)>>

AluCMP(a, f, x) ==
    LET res == wrapping_sub(a, x)
    IN  <<a, UpdateSZP(set_carry_flag(
                 set_auxiliary_carry_flag(f, a >= x), a < x), res)>>

ExecOther(c, op) ==
    LET c1 == AddPc(c, 1)
        dst == get_dest_num(op)
        src == get_src_num(op)
        mov == IF (op \div 64) % 4 = 1 /\ dst # src
               THEN set_register_or_memory_data(RegIndex(c1, src), dst,
                        register_or_memory_data(c1, src))
               ELSE c1
        alu == op - (op % 8)
        c2 == RegIndex(mov, src)
        x == register_or_memory_data(mov, src)
        r == CASE alu = \H80 -> AluADD(c2.acc, c2.flag, x)
               [] alu = \H88 -> AluADC(c2.acc, c2.flag, x)
               [] alu = \H90 -> AluSUB(c2.acc, c2.flag, x)
               [] alu = \H98 -> AluSBB(c2.acc, c2.flag, x)
               [] alu = \HA0 -> AluANA(c2.acc, c2.flag, x)
               [] alu = \HA8 -> AluXRA(c2.acc, c2.flag, x)
               [] alu = \HB0 -> AluORA(c2.acc, c2.flag, x)
               [] alu = \HB8 -> AluCMP(c2.acc, c2.flag, x)
               [] OTHER -> <<c2.acc, c2.flag>>
    IN  SetFlag(SetAcc(c2, r[1]), r[2])

execute(c, op) ==
    LET tag == OpcodeFrom(op)
    IN  CASE tag = "NOP" -> ExecNOP(c, op)
          [] tag = "LXI" -> ExecLXI(c, op)
          [] tag = "STAX" -> ExecSTAX(c, op)
          [] tag = "STA" -> ExecSTA(c, op)
          [] tag = "LDAX" -> ExecLDAX(c, op)
          [] tag = "LDA" -> ExecLDA(c, op)
          [] tag = "INX" -> ExecINX(c, op)
          [] tag = "INR" -> ExecINR(c, op)
          [] tag = "DCR" -> ExecDCR(c, op)
          [] tag = "MVI" -> ExecMVI(c, op)
          [] tag = "RLC" -> ExecRLC(c, op)
          [] tag = "RRC" -> ExecRRC(c, op)
          [] tag = "RAL" -> ExecRAL(c, op)
          [] tag = "RAR" -> ExecRAR(c, op)
          [] tag = "DAD" -> ExecDAD(c, op)
          [] tag = "DCX" -> ExecDCX(c, op)
          [] tag = "SHLD" -> ExecSHLD(c, op)
          [] tag = "LHLD" -> ExecLHLD(c, op)
          [] tag = "CMA" -> ExecCMA(c, op)
          [] tag = "CMC" -> ExecCMC(c, op)
          [] tag = "DAA" -> ExecDAA(c, op)
          [] tag = "STC" -> ExecSTC(c, op)
          [] tag = "IN" -> ExecIN(c, op)
          [] tag = "OUT" -> ExecOUT(c, op)
          [] tag = "HLT" -> ExecHLT(c, op)
          [] tag = "EI" -> ExecEI(c, op)
          [] tag = "DI" -> ExecDI(c, op)
          [] tag = "RST" -> ExecRST(c, op)
          [] tag = "XCHG" -> ExecXCHG(c, op)
          [] tag = "XTHL" -> ExecXTHL(c, op)
          [] tag = "PUSH" -> ExecPUSH(c, op)
          [] tag = "POP" -> ExecPOP(c, op)
          [] tag = "ADI" -> ExecADI(c, op)
          [] tag = "ACI" -> ExecACI(c, op)
          [] tag = "SUI" -> ExecSUI(c, op)
          [] tag = "SBI" -> ExecSBI(c, op)
          [] tag = "ANI" -> ExecANI(c, op)
          [] tag = "XRI" -> ExecXRI(c, op)
          [] tag = "ORI" -> ExecORI(c, op)
          [] tag = "CPI" -> ExecCPI(c, op)
          [] tag = "JMP" -> ExecJMP(c, op)
          [] tag \in {"JC", "JNC", "JZ", "JNZ", "JM", "JP", "JPE", "JPO"} ->
                ExecJcc(c, op)
          [] tag = "CALL" -> ExecCALL(c, op)
          [] tag \in {"CC", "CNC", "CZ", "CNZ", "CM", "CP", "CPE", "CPO"} ->
                ExecCcc(c, op)
          [] tag = "RET" -> ExecRET(c, op)
          [] tag \in {"RC", "RNC", "RZ", "RNZ", "RM", "RP", "RPE", "RPO"} ->
                ExecRcc(c, op)
          [] tag = "SPHL" -> ExecSPHL(c, op)
          [] tag = "other" -> ExecOther(c, op)
          [] OTHER -> Panic(c)

\* Mutant of handle_interrupt: pushes PC and disables interrupts as the
\* unfinished CPU::interrupt does, without loading the vector.
handle_interrupt_NoVector(c) ==
    IF c.panicked \/ ~c.interrupted THEN c
    ELSE stack_push([c EXCEPT !.interrupted = FALSE], c.pc)

\* The acknowledge that leaves interrupts enabled.
handle_interrupt_KeepsEnabled(c) ==
    IF c.panicked \/ ~c.interrupted THEN c
    ELSE SetPc(stack_push(c, c.pc), c.interrupted_addr)

handle_interrupt(c) ==
    IF c.panicked \/ ~c.interrupted THEN c
    ELSE LET c1 == stack_push([c EXCEPT !.interrupted = FALSE], c.pc)
         IN  SetPc(c1, c.interrupted_addr)

\* run_once up to its call of handle_interrupt: nothing when halted, else
\* the fetch of self.data[self.pc()] and execute.
\* A variant that fetches and executes whether halted or not.
Executed_IgnoresHalt(c) ==
    IF c.pc >= c.len THEN Panic(c)
    ELSE execute(c, Rd(c, c.pc))

Executed(c) ==
    IF c.halted THEN c
    ELSE IF c.pc >= c.len THEN Panic(c)
    ELSE execute(c, Rd(c, c.pc))

run_once(c) == handle_interrupt(Executed(c))

\* The request that is dropped when a vector is already latched.
send_interrupt_KeepsFirst(c, addr) ==
    IF c.interrupted_addr # 0 THEN c ELSE [c EXCEPT !.interrupted_addr = addr]

send_interrupt(c, addr) == [c EXCEPT !.interrupted_addr = addr]

(***************************************************************************)
(* The state machine.  A driver constructs a CPU over a memory image, may  *)
(* set the public fields acc and registers (as the tests do), and then     *)
(* calls run_once and send_interrupt.                                      *)
(***************************************************************************)
\* The bytes of a memory image as the model keeps them: by address, zero
\* bytes left out.
Image(bytes) ==
    [a \in {i - 1 : i \in {j \in 1..Len(bytes) : bytes[j] # 0}} |-> bytes[a + 1]]

\* CPU::new(data), then the driver's writes of the public fields flag,
\* acc and registers.
\* CPU::new with the initial stack pointer clamped to 0xFFFF instead of
\* truncated by the cast.
Constructed_SaturatedSp(image, len, f, regs, a, oc, steps, requests) ==
    /\ flag = f
    /\ registers = regs
    /\ acc = a
    /\ sp = IF len > 65535 THEN 65535 ELSE len
    /\ pc = 0
    /\ data = image
    /\ data_len = len
    /\ interrupted = TRUE
    /\ interrupted_addr = 0
    /\ halted = FALSE
    /\ panicked = FALSE
    /\ overflow_checks = oc
    /\ trace = <<>>
    /\ steps_left = steps
    /\ requests_left = requests

Constructed(image, len, f, regs, a, oc, steps, requests) ==
    /\ flag = f
    /\ registers = regs
    /\ acc = a
    /\ sp = len % 65536
    /\ pc = 0
    /\ data = image
    /\ data_len = len
    /\ interrupted = TRUE
    /\ interrupted_addr = 0
    /\ halted = FALSE
    /\ panicked = FALSE
    /\ overflow_checks = oc
    /\ trace = <<>>
    /\ steps_left = steps
    /\ requests_left = requests

Apply(n) ==
    /\ flag' = n.flag
    /\ registers' = n.registers
    /\ acc' = n.acc
    /\ sp' = n.sp
    /\ pc' = n.pc
    /\ data' = n.data
    /\ interrupted' = n.interrupted
    /\ interrupted_addr' = n.interrupted_addr
    /\ halted' = n.halted
    /\ panicked' = n.panicked
    /\ UNCHANGED <<data_len, overflow_checks>>

RunOnce ==
    /\ ~panicked
    /\ steps_left > 0
    /\ LET c == Cur
           m == Executed(c)
           n == handle_interrupt(m)
       IN  /\ Apply(n)
           /\ trace' = Append(trace, [call |-> "run_once", arg |-> 0,
                                      before |-> c, mid |-> m, after |-> n])
    /\ steps_left' = steps_left - 1
    /\ UNCHANGED requests_left

SendInterrupt(addr) ==
    /\ ~panicked
    /\ requests_left > 0
    /\ LET c == Cur
           n == send_interrupt(c, addr)
       IN  /\ Apply(n)
           /\ trace' = Append(trace, [call |-> "send_interrupt", arg |-> addr,
                                      before |-> c, mid |-> c, after |-> n])
    /\ requests_left' = requests_left - 1
    /\ UNCHANGED steps_left

\* Memory lengths: a small buffer, and the 64 KiB of the ROM runner.
Lens == {64, 65536}

\* Interrupt vectors the driver requests.
Vectors == {1, 16}

ZeroRegisters == [i \in 0..5 |-> 0]

SomeRegisters ==
    (0 :> \H12) @@ (1 :> \H34) @@ (2 :> \H56) @@ (3 :> \H78) @@ (4 :> 0)
    @@ (5 :> \H30)

RegisterFiles == {ZeroRegisters, SomeRegisters}

Accs == {0, \H9B}

\* One-instruction prefixes that leave the flags in different states:
\* NOP, STC (C), XRA A (Z, P), DCR A (S, and P or not).
FlagSetters == {<<\H00>>, <<\H37>>, <<\HAF>>, <<\H3D>>}

Branches ==
    {\HC2, \HCA, \HD2, \HDA, \HE2, \HEA, \HF2, \HFA, \HC3,
     \HC4, \HCC, \HD4, \HDC, \HE4, \HEC, \HF4, \HFC, \HCD}

Returns == {\HC0, \HC8, \HD0, \HD8, \HE0, \HE8, \HF0, \HF8, \HC9}

Pushes == {\HC5, \HD5, \HE5, \HF5}

Pops == {\HC1, \HD1, \HE1, \HF1}

Restarts == {\HC7, \HCF, \HD7, \HDF, \HE7, \HEF, \HF7, \HFF}

Programs ==
    {f \o <<b, \H10, \H00>> : f \in FlagSetters, b \in Branches}
    \cup {f \o <<r>> : f \in FlagSetters, r \in Returns}
    \cup {<<p, q>> : p \in Pushes, q \in Pops}
    \cup {<<r>> : r \in Restarts}
    \cup {<<\H00, r>> : r \in Restarts}
    \cup {<<\HCD, \H04, \H00, \H00, \HC9>>,
          <<\H76>>, <<\HFB, \H76>>, <<\HF3, \H76>>, <<\H00, \H76>>,
          <<\H00, \HF1, \HF5>>, <<\HFB, \H00>>, <<\HF3, \HFB>>}

Init ==
    \E prog \in Programs, len \in Lens, regs \in RegisterFiles, a \in Accs,
       oc \in BOOLEAN :
        Constructed(Image(prog), len, FlagDefault, regs, a, oc, MaxSteps,
                    MaxRequests)

Next ==
    \/ RunOnce
    \/ \E addr \in Vectors : SendInterrupt(addr)

Spec == Init /\ [][Next]_vars

(***************************************************************************)
(* The ALU under every accumulator and operand: one step of a program that *)
(* is a single ALU instruction, register form (source B) or immediate      *)
(* form, from a CPU whose driver has set acc, B and the carry flag.        *)
(***************************************************************************)
AluRegisterForms == {\H80, \H88, \H90, \H98, \HA0, \HA8, \HB0, \HB8}

AluImmediateForms == {\HC6, \HCE, \HD6, \HDE, \HE6, \HEE, \HF6, \HFE}

\* The accumulators and operands tried: every low nibble under the high
\* nibbles 0, 7, 8 and F (both signs, both ends of the range).
AluBytes == {h * 16 + l : h \in {0, 7, 8, 15}, l \in 0..15}

InitAlu ==
    \E a \in AluBytes, x \in AluBytes, cy \in BOOLEAN :
        \/ \E op \in AluRegisterForms :
              Constructed(Image(<<op>>), 64, set_carry_flag(FlagDefault, cy),
                          [ZeroRegisters EXCEPT ![0] = x], a, FALSE, AluSteps, 0)
        \/ \E op \in AluImmediateForms :
              Constructed(Image(<<op, x>>), 64, set_carry_flag(FlagDefault, cy),
                          ZeroRegisters, a, FALSE, AluSteps, 0)

SpecAlu == InitAlu /\ [][RunOnce]_vars

(***************************************************************************)
(* Reading the history.  An entry of trace holds the CPU before the call,  *)
(* after run_once's execute (mid) and when the call returned (after).      *)
(***************************************************************************)
\* The run_once calls made so far, in order.
Runs == SelectSeq(trace, LAMBDA e : e.call = "run_once")

\* The opcode byte the step fetched.
Fetched(e) == Rd(e.before, e.before.pc)

\* The step fetched an instruction and execute returned.
Retired(e) ==
    /\ e.call = "run_once"
    /\ ~e.before.halted
    /\ e.before.pc < e.before.len
    /\ ~e.mid.panicked

\* The step's handle_interrupt took its branch and returned.
Acknowledged(e) ==
    /\ e.call = "run_once"
    /\ ~e.mid.panicked
    /\ e.mid.interrupted
    /\ ~e.after.panicked

\* The word on top of the stack of CPU c.
TopWord(c) == compose_to_u16(Rd(c, (c.sp + 1) % 65536), Rd(c, c.sp))

\* C1: in every state reached by stepping a freshly constructed CPU the
\* flag byte has bit 1 = 1 and bits 3 and 5 = 0 (so PUSH PSW writes such a
\* byte); the accessors read C, P, AC, Z, S from bits 0, 2, 4, 6, 7.
C1_FlagLayout ==
    /\ Bit(flag, 1) = 1
    /\ Bit(flag, 3) = 0
    /\ Bit(flag, 5) = 0
    /\ carry_flag(flag) <=> Bit(flag, 0) = 1
    /\ parity_flag(flag) <=> Bit(flag, 2) = 1
    /\ auxiliary_flag(flag) <=> Bit(flag, 4) = 1
    /\ zero_flag(flag) <=> Bit(flag, 6) = 1
    /\ sign_flag(flag) <=> Bit(flag, 7) = 1

\* The vector of the latest send_interrupt before entry i of the trace
\* (-1 when there was none).
Requested(i) ==
    LET js == {j \in 1..(i - 1) : trace[j].call = "send_interrupt"}
    IN  IF js = {} THEN -1
        ELSE trace[CHOOSE j \in js : \A k \in js : k <= j].arg

\* C2: once send_interrupt(V) was called, a step that reaches its interrupt
\* check with interrupts enabled ends with the PC its instruction left
\* pushed (SP lowered by 2, low byte at SP, high byte at SP + 1),
\* interrupts disabled and PC = V.
C2_RequestIsAcknowledged ==
    \A i \in 1..Len(trace) :
        LET e == trace[i]
        IN  (Requested(i) # -1 /\ Acknowledged(e)) =>
                /\ e.after.sp = (e.mid.sp + 65534) % 65536
                /\ Rd(e.after, e.after.sp) = e.mid.pc % 256
                /\ Rd(e.after, (e.after.sp + 1) % 65536) = e.mid.pc \div 256
                /\ ~e.after.interrupted
                /\ e.after.pc = Requested(i)

C2_Witness ==
    \E i \in 1..Len(trace) :
        /\ Requested(i) = 16
        /\ Acknowledged(trace[i])
        /\ trace[i].mid.pc # 0
        /\ trace[i].after.pc = 16

\* C3: an interrupt acknowledged while the CPU is halted clears halted, so
\* that the following steps execute again.
C3_AcknowledgeResumes ==
    \A i \in 1..Len(trace) :
        (Acknowledged(trace[i]) /\ trace[i].mid.halted) => ~trace[i].after.halted

\* C4: PUSH rp followed at once by POP rp, with no interrupt acknowledged
\* in between, leaves SP and the pair's two bytes (A and the whole of F
\* for PSW) as they were before the PUSH.
C4_PushPopRestores ==
    \A i \in 1..(Len(Runs) - 1) :
        LET e == Runs[i]
            g == Runs[i + 1]
            rp == get_rp_num_2(Fetched(e))
        IN  (/\ Retired(e) /\ Fetched(e) \in Pushes
             /\ ~e.mid.interrupted
             /\ Retired(g) /\ Fetched(g) \in Pops
             /\ get_rp_num_2(Fetched(g)) = rp) =>
                /\ g.mid.sp = e.before.sp
                /\ IF rp # 3
                   THEN /\ g.mid.registers[rp * 2] = e.before.registers[rp * 2]
                        /\ g.mid.registers[rp * 2 + 1]
                               = e.before.registers[rp * 2 + 1]
                   ELSE g.mid.acc = e.before.acc /\ g.mid.flag = e.before.flag

C4_Witness ==
    \E i \in 1..(Len(Runs) - 1) :
        LET e == Runs[i]
            g == Runs[i + 1]
        IN  /\ Retired(e) /\ Fetched(e) = \HC5
            /\ ~e.mid.interrupted
            /\ Retired(g) /\ Fetched(g) = \HC1
            /\ e.before.registers[0] # e.before.registers[1]
            /\ g.before.pc = e.mid.pc

\* C5: CALL at address p and a later RET that finds SP at its value after
\* the CALL and the two stacked bytes as the CALL left them leaves
\* PC = p + 3 and SP at its value before the CALL.
C5_CallRetRoundTrip ==
    \A i \in 1..Len(Runs) : \A j \in (i + 1)..Len(Runs) :
        LET e == Runs[i]
            g == Runs[j]
        IN  (/\ Retired(e) /\ Fetched(e) = \HCD
             /\ Retired(g) /\ Fetched(g) = \HC9
             /\ g.before.sp = e.mid.sp
             /\ TopWord(g.before) = TopWord(e.mid)) =>
                /\ g.mid.pc = (e.before.pc + 3) % 65536
                /\ g.mid.sp = e.before.sp

C5_Witness ==
    \E i \in 1..Len(Runs) : \E j \in (i + 1)..Len(Runs) :
        LET e == Runs[i]
            g == Runs[j]
        IN  /\ Retired(e) /\ Fetched(e) = \HCD
            /\ Retired(g) /\ Fetched(g) = \HC9
            /\ g.before.sp = e.mid.sp
            /\ TopWord(g.before) = TopWord(e.mid)
            /\ g.mid.pc = 3

\* The conditional jumps, calls and returns, and the condition each one
\* tests, read from the flag bits: C bit 0, P bit 2, Z bit 6, S bit 7.
ConditionalJumps == {\HC2, \HCA, \HD2, \HDA, \HE2, \HEA, \HF2, \HFA}

ConditionalCalls == {\HC4, \HCC, \HD4, \HDC, \HE4, \HEC, \HF4, \HFC}

ConditionalReturns == {\HC0, \HC8, \HD0, \HD8, \HE0, \HE8, \HF0, \HF8}

ConditionHolds(op, f) ==
    LET cc == (op \div 8) % 8
    IN  CASE cc = 0 -> Bit(f, 6) = 0
          [] cc = 1 -> Bit(f, 6) = 1
          [] cc = 2 -> Bit(f, 0) = 0
          [] cc = 3 -> Bit(f, 0) = 1
          [] cc = 4 -> Bit(f, 2) = 0
          [] cc = 5 -> Bit(f, 2) = 1
          [] cc = 6 -> Bit(f, 7) = 0
          [] cc = 7 -> Bit(f, 7) = 1

NotTaken(e) ==
    /\ Retired(e)
    /\ Fetched(e) \in ConditionalJumps \cup ConditionalCalls \cup ConditionalReturns
    /\ ~ConditionHolds(Fetched(e), e.before.flag)

\* C6: a conditional jump, call or return whose condition is false
\* advances PC by 3 (Jcc, Ccc) or 1 (Rcc) and changes nothing else.
C6_NotTakenOnlyAdvances ==
    \A i \in 1..Len(Runs) :
        LET e == Runs[i]
            k == IF Fetched(e) \in ConditionalReturns THEN 1 ELSE 3
        IN  NotTaken(e) =>
                e.mid = [e.before EXCEPT !.pc = (e.before.pc + k) % 65536]

C6_Witness ==
    \E i \in 1..Len(Runs) :
        /\ NotTaken(Runs[i])
        /\ Fetched(Runs[i]) = \HD4
        /\ Runs[i].before.sp < Runs[i].before.len

\* C7: RST n at address p pushes p + 1 (SP lowered by 2, low byte at SP,
\* high byte at SP + 1) and sets PC = 8 * n.
C7_RstPushesNextAndVectors ==
    \A i \in 1..Len(Runs) :
        LET e == Runs[i]
            n == (Fetched(e) - \HC7) \div 8
        IN  (Retired(e) /\ Fetched(e) \in Restarts) =>
                /\ e.mid.sp = (e.before.sp + 65534) % 65536
                /\ TopWord(e.mid) = (e.before.pc + 1) % 65536
                /\ e.mid.pc = 8 * n

C7_Witness ==
    \E i \in 1..Len(Runs) :
        LET e == Runs[i]
        IN  /\ Retired(e) /\ Fetched(e) = \HFF
            /\ e.before.pc = 1
            /\ e.mid.pc = 56

\* The flag bits S, Z, AC, P, C of a flag byte.
FiveFlags(f) == <<Bit(f, 7), Bit(f, 6), Bit(f, 4), Bit(f, 2), Bit(f, 0)>>

\* C8: the immediate form of each ALU operation leaves the same A and the
\* same S, Z, AC, P, C as its register form run on the same A, operand and
\* incoming flags (here: the register form with B holding the operand).
C8_ImmediateMatchesRegister ==
    \A i \in 1..Len(Runs) :
        LET e == Runs[i]
            x == Rd(e.before, e.before.pc + 1)
            r == ExecOther([e.before EXCEPT !.registers[0] = x],
                           Fetched(e) - \H46)
        IN  (Retired(e) /\ Fetched(e) \in AluImmediateForms) =>
                /\ e.mid.acc = r.acc
                /\ FiveFlags(e.mid.flag) = FiveFlags(r.flag)

\* C9: SUB r with operand x sets A = (A - x) mod 256, C = (A < x),
\* AC = ((A & 0xF) >= (x & 0xF)) on the values before the operation, and
\* S, Z, P from the result.
C9_SubResultAndFlags ==
    \A i \in 1..Len(Runs) :
        LET e == Runs[i]
            a == e.before.acc
            x == e.before.registers[0]
            r == (a + 256 - x) % 256
        IN  (Retired(e) /\ Fetched(e) = \H90) =>
                /\ e.mid.acc = r
                /\ Bit(e.mid.flag, 0) = 1 <=> a < x
                /\ Bit(e.mid.flag, 4) = 1 <=> (a % 16) >= (x % 16)
                /\ Bit(e.mid.flag, 7) = 1 <=> r >= 128
                /\ Bit(e.mid.flag, 6) = 1 <=> r = 0
                /\ Bit(e.mid.flag, 2) = 1 <=> count_ones(r) % 2 = 0

\* C10: SBB r with operand x and incoming carry c sets A = (A - x - c) mod
\* 256 and C iff A < x + c in unbounded arithmetic.
C10_SbbBorrow ==
    \A i \in 1..Len(Runs) :
        LET e == Runs[i]
            a == e.before.acc
            x == e.before.registers[0]
            cy == Bit(e.before.flag, 0)
        IN  (Retired(e) /\ Fetched(e) = \H98) =>
                /\ e.mid.acc = (a + 512 - x - cy) % 256
                /\ Bit(e.mid.flag, 0) = 1 <=> a < x + cy

(***************************************************************************)
(* Single instructions of the arithmetic group from chosen operands: one   *)
(* step of a program that is one instruction, from a CPU whose driver has  *)
(* set acc, the registers, the byte HL addresses and the flags C and AC.   *)
(***************************************************************************)
\* Operand bytes: zero, the nibble and byte boundaries, BCD digits and
\* their neighbours, alternating bits.
OpBytes ==
    {0, 1, 9, 10, 15, 16, \H55, \H7F, \H80, \H90, \H99, \H9B, \HAA, \HF0,
     \HFA, \HFF}

\* The address HL holds in these runs.
OpAddr == \H30

\* B, C, D, E hold x; HL addresses OpAddr.
OpRegisters(x) == [i \in 0..5 |-> IF i < 4 THEN x ELSE IF i = 4 THEN 0 ELSE OpAddr]

\* The instruction at 0, x as its immediate byte and as the byte at OpAddr.
OpImage(op, x) ==
    Image([i \in 1..(OpAddr + 1) |->
              IF i = 1 THEN op ELSE IF i = 2 \/ i = OpAddr + 1 THEN x ELSE 0])

OpFlag(cy, ac) ==
    set_auxiliary_carry_flag(set_carry_flag(FlagDefault, cy), ac)

\* ADD..CMP with every source (B, C, D, E, H, L, M, A).
AluAnySource == 128..191

\* INR r and DCR r for every operand (B, C, D, E, H, L, M, A).
IncForms == {4 + (8 * r) : r \in 0..7}

DecForms == {5 + (8 * r) : r \in 0..7}

\* RAL, RAR, DAA.
AccForms == {\H17, \H1F, \H27}

DadForms == {\H09, \H19, \H29, \H39}

\* The bytes of the pairs DAD adds.
DadBytes == {0, 1, \H80, \HFF}

DadRegisters(rp, rh, rl, h, l) ==
    [i \in 0..5 |-> IF i = 4 THEN h ELSE IF i = 5 THEN l
                    ELSE IF i = rp * 2 THEN rh
                    ELSE IF i = (rp * 2) + 1 THEN rl ELSE 0]

InitOps ==
    \/ \E op \in AluAnySource \cup AluImmediateForms, a \in OpBytes,
          x \in OpBytes, cy \in BOOLEAN :
          Constructed(OpImage(op, x), 64, OpFlag(cy, FALSE), OpRegisters(x),
                      a, FALSE, AluSteps, 0)
    \/ \E op \in IncForms \cup DecForms, v \in 0..255, cy \in BOOLEAN,
          oc \in BOOLEAN :
          Constructed(OpImage(op, v), 64, OpFlag(cy, FALSE), OpRegisters(v),
                      v, oc, AluSteps, 0)
    \/ \E op \in AccForms, a \in 0..255, cy \in BOOLEAN, ac \in BOOLEAN,
          oc \in BOOLEAN :
          Constructed(OpImage(op, 0), 64, OpFlag(cy, ac), OpRegisters(0),
                      a, oc, AluSteps, 0)
    \/ \E op \in DadForms, rh \in DadBytes, rl \in DadBytes, h \in DadBytes,
          l \in DadBytes, cy \in BOOLEAN, len \in Lens :
          Constructed(OpImage(op, 0), len, OpFlag(cy, FALSE),
                      DadRegisters(get_rp_num_2(op), rh, rl, h, l), 0, FALSE,
                      AluSteps, 0)

SpecOps == InitOps /\ [][RunOnce]_vars

\* C11: CMP r leaves A unchanged and sets C, AC, S, Z, P to the values
\* SUB r sets from the same A and operand.
C11_CmpMatchesSub ==
    \A i \in 1..Len(Runs) :
        LET e == Runs[i]
            r == ExecOther(e.before, \H90)
        IN  (Retired(e) /\ Fetched(e) = \HB8) =>
                /\ e.mid.acc = e.before.acc
                /\ FiveFlags(e.mid.flag) = FiveFlags(r.flag)

C11_Witness ==
    \E i \in 1..Len(Runs) :
        LET e == Runs[i]
        IN  /\ Retired(e) /\ Fetched(e) = \HB8
            /\ e.before.acc = \H0F /\ e.before.registers[0] = \H70
            /\ e.mid.acc = \H0F
            /\ Bit(e.mid.flag, 0) = 1

\* C12: ADD r (cin = 0) and ADC r (cin = the incoming C) set
\* A = (A + x + cin) mod 256, C = (A + x + cin > 0xFF),
\* AC = ((A & 0xF) + (x & 0xF) + cin > 0xF), and S, Z, P from the result.
C12_AddAdcResultAndFlags ==
    \A i \in 1..Len(Runs) :
        LET e == Runs[i]
            a == e.before.acc
            x == e.before.registers[0]
            cin == IF Fetched(e) = \H88 THEN Bit(e.before.flag, 0) ELSE 0
            s == a + x + cin
            r == s % 256
        IN  (Retired(e) /\ Fetched(e) \in {\H80, \H88}) =>
                /\ e.mid.acc = r
                /\ Bit(e.mid.flag, 0) = 1 <=> s > 255
                /\ Bit(e.mid.flag, 4) = 1 <=> (a % 16) + (x % 16) + cin > 15
                /\ Bit(e.mid.flag, 7) = 1 <=> r >= 128
                /\ Bit(e.mid.flag, 6) = 1 <=> r = 0
                /\ Bit(e.mid.flag, 2) = 1 <=> count_ones(r) % 2 = 0

C12_Witness ==
    \E i \in 1..Len(Runs) :
        LET e == Runs[i]
        IN  /\ Retired(e) /\ Fetched(e) = \H88
            /\ e.before.acc = \HF0 /\ e.before.registers[0] = \H0F
            /\ Bit(e.before.flag, 0) = 1
            /\ e.mid.acc = 0
            /\ Bit(e.mid.flag, 0) = 1 /\ Bit(e.mid.flag, 4) = 1

\* The logic instructions: ANA, XRA, ORA with every source, ANI, XRI, ORI.
LogicForms == (160..183) \cup {\HE6, \HEE, \HF6}

\* The operand byte of an ALU instruction: the immediate byte, or the
\* source register, the byte HL addresses or A.
Operand(e) ==
    IF Fetched(e) >= 192 THEN Rd(e.before, e.before.pc + 1)
    ELSE register_or_memory_data(e.before, Fetched(e) % 8)

\* C13: ANA, XRA, ORA (any source) and ANI, XRI, ORI set A to the bitwise
\* AND, XOR, OR of A and the operand and leave C = 0 whatever C was.
C13_LogicClearsCarry ==
    \A i \in 1..Len(Runs) :
        LET e == Runs[i]
            a == e.before.acc
            x == Operand(e)
            kind == (Fetched(e) \div 8) % 8
        IN  (Retired(e) /\ Fetched(e) \in LogicForms) =>
                /\ e.mid.acc = CASE kind = 4 -> And8(a, x)
                                 [] kind = 5 -> Xor8(a, x)
                                 [] kind = 6 -> Or8(a, x)
                /\ Bit(e.mid.flag, 0) = 0

C13_Witness ==
    \E i \in 1..Len(Runs) :
        LET e == Runs[i]
        IN  /\ Retired(e) /\ Fetched(e) = \HA6
            /\ e.before.acc = \HFF /\ Operand(e) = \H55
            /\ Bit(e.before.flag, 0) = 1
            /\ e.mid.acc = \H55
            /\ Bit(e.mid.flag, 0) = 0

\* The instructions that update S, Z, P: INR, DCR, DAA and the eight ALU
\* operations in register and immediate form.
SzpForms ==
    IncForms \cup DecForms \cup {\H27} \cup AluAnySource \cup AluImmediateForms

\* The 8-bit result such an instruction computed: (A - x) mod 256 for CMP
\* and CPI, the new operand byte for INR and DCR, the new A otherwise.
SzpResult(e) ==
    LET op == Fetched(e)
    IN  IF op \in (184..191) \cup {\HFE}
        THEN (e.before.acc + 256 - Operand(e)) % 256
        ELSE IF op \in IncForms \cup DecForms
             THEN register_or_memory_data(e.mid, (op \div 8) % 8)
             ELSE e.mid.acc

\* C14: after every instruction that updates S, Z, P, Z = (result = 0),
\* S = bit 7 of the result and P = 1 iff the result has an even number of
\* one bits.
C14_SignZeroParity ==
    \A i \in 1..Len(Runs) :
        LET e == Runs[i]
            r == SzpResult(e)
        IN  (Retired(e) /\ Fetched(e) \in SzpForms) =>
                /\ Bit(e.mid.flag, 6) = 1 <=> r = 0
                /\ Bit(e.mid.flag, 7) = Bit(r, 7)
                /\ Bit(e.mid.flag, 2) = 1 <=> count_ones(r) % 2 = 0

C14_Witness ==
    \E i \in 1..Len(Runs) :
        LET e == Runs[i]
        IN  /\ Retired(e) /\ Fetched(e) = \H35
            /\ Rd(e.before, OpAddr) = 0
            /\ SzpResult(e) = \HFF
            /\ Bit(e.mid.flag, 7) = 1 /\ Bit(e.mid.flag, 2) = 1
            /\ Bit(e.mid.flag, 6) = 0

\* C15: INR r and DCR r (r a register or M) set the operand to
\* (v + 1) mod 256 or (v - 1) mod 256, set S, Z, P from that result, set
\* AC iff the low nibble of the value v before the operation is 0xF, and
\* leave C unchanged.
C15_IncDecResultAndFlags ==
    \A i \in 1..Len(Runs) :
        LET e == Runs[i]
            op == Fetched(e)
            reg == (op \div 8) % 8
            v == register_or_memory_data(e.before, reg)
            r == IF op \in IncForms THEN (v + 1) % 256 ELSE (v + 255) % 256
        IN  (Retired(e) /\ op \in IncForms \cup DecForms) =>
                /\ register_or_memory_data(e.mid, reg) = r
                /\ Bit(e.mid.flag, 7) = 1 <=> r >= 128
                /\ Bit(e.mid.flag, 6) = 1 <=> r = 0
                /\ Bit(e.mid.flag, 2) = 1 <=> count_ones(r) % 2 = 0
                /\ Bit(e.mid.flag, 4) = 1 <=> v % 16 = 15
                /\ Bit(e.mid.flag, 0) = Bit(e.before.flag, 0)

C15_Witness ==
    \E i \in 1..Len(Runs) :
        LET e == Runs[i]
        IN  /\ Retired(e) /\ Fetched(e) = \H04
            /\ e.before.registers[0] = \HFF /\ e.mid.registers[0] = 0
            /\ Bit(e.before.flag, 0) = 0 /\ Bit(e.mid.flag, 0) = 0
            /\ Bit(e.mid.flag, 4) = 1

\* C16: RAL rotates the 9-bit value (C, A) left by one:
\* new A = ((A << 1) mod 256) | old C and new C = old bit 7 of A.
C16_RalThroughCarry ==
    \A i \in 1..Len(Runs) :
        LET e == Runs[i]
            a == e.before.acc
        IN  (Retired(e) /\ Fetched(e) = \H17) =>
                /\ e.mid.acc = ((a * 2) % 256) + Bit(e.before.flag, 0)
                /\ Bit(e.mid.flag, 0) = Bit(a, 7)

\* C17: RAR rotates the 9-bit value (A, C) right by one:
\* new A = (A >> 1) | (old C << 7) and new C = old bit 0 of A.
C17_RarThroughCarry ==
    \A i \in 1..Len(Runs) :
        LET e == Runs[i]
            a == e.before.acc
        IN  (Retired(e) /\ Fetched(e) = \H1F) =>
                /\ e.mid.acc = (a \div 2) + (128 * Bit(e.before.flag, 0))
                /\ Bit(e.mid.flag, 0) = Bit(a, 0)

C17_Witness ==
    \E i \in 1..Len(Runs) :
        LET e == Runs[i]
        IN  /\ Retired(e) /\ Fetched(e) = \H1F
            /\ e.before.acc = \H81 /\ Bit(e.before.flag, 0) = 0
            /\ e.mid.acc = \H40
            /\ Bit(e.mid.flag, 0) = 1

\* C18: DAA, for every A, AC and C: if (A & 0x0F) > 9 or AC = 1 then A
\* becomes (A + 6) mod 256 and AC the carry out of the low nibble of that
\* addition; then, if (A >> 4) > 9 or C = 1, A becomes (A + 0x60) mod 256
\* and C becomes 1; S, Z, P are set from the final A; C never goes from 1
\* to 0.
C18_DaaAdjusts ==
    \A i \in 1..Len(Runs) :
        LET e == Runs[i]
            a0 == e.before.acc
            adj1 == (a0 % 16) > 9 \/ Bit(e.before.flag, 4) = 1
            a1 == IF adj1 THEN (a0 + 6) % 256 ELSE a0
            adj2 == (a1 \div 16) > 9 \/ Bit(e.before.flag, 0) = 1
            a2 == IF adj2 THEN (a1 + 96) % 256 ELSE a1
        IN  (e.call = "run_once" /\ ~e.before.halted /\ Fetched(e) = \H27) =>
                /\ ~e.mid.panicked
                /\ e.mid.acc = a2
                /\ adj1 => (Bit(e.mid.flag, 4) = 1 <=> (a0 % 16) + 6 > 15)
                /\ adj2 => Bit(e.mid.flag, 0) = 1
                /\ Bit(e.mid.flag, 7) = 1 <=> a2 >= 128
                /\ Bit(e.mid.flag, 6) = 1 <=> a2 = 0
                /\ Bit(e.mid.flag, 2) = 1 <=> count_ones(a2) % 2 = 0

\* The 16-bit value of HL in CPU c, and of the pair DAD adds to it.
PairHL(c) == compose_to_u16(c.registers[4], c.registers[5])

DadOperand(c, op) ==
    LET rp == (op \div 16) % 4
    IN  IF rp = 3 THEN c.sp
        ELSE compose_to_u16(c.registers[rp * 2], c.registers[(rp * 2) + 1])

\* C19: DAD rp, for rp in BC, DE, HL, SP, sets C iff HL + rp exceeds
\* 0xFFFF and clears C otherwise.
C19_DadCarry ==
    \A i \in 1..Len(Runs) :
        LET e == Runs[i]
        IN  (Retired(e) /\ Fetched(e) \in DadForms) =>
                (Bit(e.mid.flag, 0) = 1 <=>
                    PairHL(e.before) + DadOperand(e.before, Fetched(e)) > 65535)

\* C20: DAD rp sets HL to (HL + rp) mod 2^16 and leaves S, Z, AC, P and
\* every register other than H and L unchanged.
C20_DadSumAndFrame ==
    \A i \in 1..Len(Runs) :
        LET e == Runs[i]
        IN  (Retired(e) /\ Fetched(e) \in DadForms) =>
                /\ PairHL(e.mid)
                       = (PairHL(e.before) + DadOperand(e.before, Fetched(e)))
                             % 65536
                /\ \A b \in {2, 4, 6, 7} :
                       Bit(e.mid.flag, b) = Bit(e.before.flag, b)
                /\ \A r \in 0..3 : e.mid.registers[r] = e.before.registers[r]
                /\ e.mid.acc = e.before.acc

C20_Witness ==
    \E i \in 1..Len(Runs) :
        LET e == Runs[i]
        IN  /\ Retired(e) /\ Fetched(e) = \H09
            /\ PairHL(e.before) = 511 /\ DadOperand(e.before, \H09) = 65281
            /\ PairHL(e.mid) = 256
            /\ e.mid.registers[0] = 255 /\ e.mid.registers[1] = 1

(***************************************************************************)
(* Single instructions on register pairs and 16-bit words: INX and DCX of  *)
(* chosen pair values, LXI of chosen operand bytes, and CALL to every      *)
(* 16-bit address (the call composes its operand bytes into PC and the     *)
(* acknowledge that follows decomposes that PC onto the stack).            *)
(***************************************************************************)
\* Bytes of the pairs: both ends of the range, the sign boundary, and the
\* operand bytes of test_LXI.
PairBytes == {0, 1, 3, \H7F, \H80, \HFE, \HFF}

IncPairForms == {\H03, \H13, \H23, \H33}

DecPairForms == {\H0B, \H1B, \H2B, \H3B}

LoadPairForms == {\H01, \H11, \H21, \H31}

InitPairs ==
    \/ \E op \in IncPairForms \cup DecPairForms, h \in PairBytes,
          l \in PairBytes, cy \in BOOLEAN, oc \in BOOLEAN :
          Constructed(Image(<<op>>), 64, OpFlag(cy, FALSE),
                      DadRegisters(get_rp_num_2(op), h, l, h, l), 0, oc,
                      AluSteps, 0)
    \/ \E op \in LoadPairForms, b1 \in PairBytes, b2 \in PairBytes,
          oc \in BOOLEAN :
          Constructed(Image(<<op, b1, b2>>), 64, FlagDefault, SomeRegisters,
                      0, oc, AluSteps, 0)
    \/ \E h \in 0..255, l \in 0..255 :
          Constructed(Image(<<\HCD, l, h>>), 64, FlagDefault, ZeroRegisters,
                      0, FALSE, AluSteps, 0)

SpecPairs == InitPairs /\ [][RunOnce]_vars

\* The 16-bit value of register pair rp (0 = BC, 1 = DE, 2 = HL) in CPU c.
PairValue(c, rp) ==
    compose_to_u16(c.registers[rp * 2], c.registers[(rp * 2) + 1])

\* C21: INX rp and DCX rp on BC, DE, HL set the pair to (rp + 1) mod 2^16
\* and (rp - 1) mod 2^16, wrapping 0xFFFF to 0x0000 and 0x0000 to 0xFFFF,
\* and change no flag.
C21_PairIncDecWraps ==
    \A i \in 1..Len(Runs) :
        LET e == Runs[i]
            op == Fetched(e)
            rp == (op \div 16) % 4
            v == PairValue(e.before, rp)
        IN  (/\ ~e.before.halted
             /\ op \in (IncPairForms \cup DecPairForms) \ {\H33, \H3B}) =>
                /\ ~e.mid.panicked
                /\ PairValue(e.mid, rp)
                       = IF op \in IncPairForms THEN (v + 1) % 65536
                         ELSE (v + 65535) % 65536
                /\ e.mid.flag = e.before.flag

\* C22: LXI rp, d16 at address p, for rp in B, D, H, loads the pair
\* little-endian: the high register (B, D, H) receives mem[p+2], the low
\* register (C, E, L) receives mem[p+1], and PC becomes p + 3.
C22_LxiLittleEndian ==
    \A i \in 1..Len(Runs) :
        LET e == Runs[i]
            op == Fetched(e)
            rp == (op \div 16) % 4
            p == e.before.pc
        IN  (Retired(e) /\ op \in LoadPairForms \ {\H31}) =>
                /\ e.mid.registers[rp * 2] = Rd(e.before, p + 2)
                /\ e.mid.registers[(rp * 2) + 1] = Rd(e.before, p + 1)
                /\ e.mid.pc = p + 3

C30_ComposeDecompose ==
    \A i \in 1..Len(Runs) :
        LET e == Runs[i]
            l == Rd(e.before, e.before.pc + 1)
            h == Rd(e.before, e.before.pc + 2)
            v == e.mid.pc
            d == decompose_to_u8(v)
        IN  (Retired(e) /\ Fetched(e) = \HCD /\ Acknowledged(e)) =>
                /\ decompose_to_u8(compose_to_u16(h, l)) = <<h, l>>
                /\ compose_to_u16(d[1], d[2]) = v
                /\ v = compose_to_u16(h, l)
                /\ Rd(e.after, e.after.sp + 1) = h
                /\ Rd(e.after, e.after.sp) = l

C30_Witness ==
    \E i \in 1..Len(Runs) :
        LET e == Runs[i]
        IN  /\ Retired(e) /\ Fetched(e) = \HCD /\ Acknowledged(e)
            /\ Rd(e.before, 1) = \HCD /\ Rd(e.before, 2) = \HAB
            /\ e.mid.pc = 43981
            /\ decompose_to_u8(e.mid.pc) = <<\HAB, \HCD>>
            /\ Rd(e.after, e.after.sp + 1) = \HAB

\* C24: a step that executes EI acknowledges within that same step: it
\* ends with the address after the EI pushed on the stack, PC = the
\* pending vector and interrupts disabled again.
C24_EiAcknowledgesAtOnce ==
    \A i \in 1..Len(Runs) :
        LET e == Runs[i]
        IN  (Retired(e) /\ Fetched(e) = \HFB /\ ~e.after.panicked) =>
                /\ e.after.sp = (e.before.sp + 65534) % 65536
                /\ TopWord(e.after) = (e.before.pc + 1) % 65536
                /\ e.after.pc = e.before.interrupted_addr
                /\ ~e.after.interrupted

C24_Witness ==
    \E i \in 1..Len(Runs) :
        LET e == Runs[i]
        IN  /\ Retired(e) /\ Fetched(e) = \HFB /\ ~e.after.panicked
            /\ ~e.before.interrupted
            /\ e.before.pc = 1
            /\ e.before.interrupted_addr = 16
            /\ e.after.pc = 16
            /\ TopWord(e.after) = 2

\* C25: while the CPU is halted and interrupts are disabled a step changes
\* nothing: PC, SP, A, B..L, F, memory, halted and the interrupt state stay
\* as they were, for any number of steps.
C25_HaltedStepIsNoOp ==
    \A i \in 1..Len(Runs) :
        LET e == Runs[i]
        IN  (e.before.halted /\ ~e.before.interrupted) => e.after = e.before

C25_Witness ==
    \E i \in 1..(Len(Runs) - 1) :
        /\ Runs[i].before.halted /\ ~Runs[i].before.interrupted
        /\ Runs[i + 1].before.halted /\ ~Runs[i + 1].before.interrupted
        /\ Runs[i + 1].after = Runs[i].before
        /\ Rd(Runs[i].before, Runs[i].before.pc) = \H76

(***************************************************************************)
(* A freshly constructed CPU stepped from address 0: the call-and-return   *)
(* scenario over ten bytes, single instructions of each length, and        *)
(* instructions whose memory operand lies at the end of the buffer.        *)
(***************************************************************************)
FreshSteps == 2

\* Buffer lengths: the scenario's ten bytes, a small buffer, 64 KiB.
FreshLens == {10, 64, 65536}

\* The operand bytes (low, high) that address the last byte of the buffer.
EndOperand(len) == <<(len - 1) % 256, (len - 1) \div 256>>

FreshPrograms(len) ==
    {<<\HCD, \H04, \H00, \H00, \HC9>>,
     <<\H00>>, <<\HC6, \H42>>, <<\H32, \H05, \H00>>, <<\H3A, \H05, \H00>>,
     <<\H06, \H42>>, <<\H01, \H01, \H03>>, <<\H04>>, <<\H41>>, <<\HF3>>,
     <<\H76>>, <<\HF1>>, <<\HC9>>, <<\HC5>>,
     <<\H32>> \o EndOperand(len), <<\H22>> \o EndOperand(len),
     <<\H2A>> \o EndOperand(len)}

InitFresh ==
    \E len \in FreshLens, oc \in BOOLEAN, a \in {0, \H14},
       regs \in RegisterFiles :
        \E prog \in FreshPrograms(len) :
            Constructed(Image(prog), len, FlagDefault, regs, a, oc,
                        FreshSteps, 0)

SpecFresh == InitFresh /\ [][RunOnce]_vars

(***************************************************************************)
(* Claims about a freshly constructed CPU.                                 *)
(***************************************************************************)

\* The runs of a history in which send_interrupt was never called.
NeverRequested == \A i \in 1..Len(trace) : trace[i].call = "run_once"

\* The ten-byte call-and-return memory: CALL 0x0004 at 0, RET at 4.
CallReturnScenario(c) ==
    /\ c.len = 10
    /\ \A a \in 0..9 : Rd(c, a) = Rd([data |-> Image(<<\HCD, \H04, \H00, \H00, \HC9>>)], a)
    /\ c.pc = 0
    /\ c.sp = 10

\* C26: a fresh CPU over the ten bytes CD 04 00 00 C9 00 00 00 00 00 ends
\* its first step with PC = 4, mem[8] = 0x03, mem[9] = 0x00 and SP = 8, and
\* its second step with PC = 3 and SP = 10.
C26_CallThenReturn ==
    (NeverRequested /\ Len(Runs) >= 1 /\ CallReturnScenario(Runs[1].before))
        => /\ Runs[1].after.pc = 4
           /\ Rd(Runs[1].after, 8) = \H03
           /\ Rd(Runs[1].after, 9) = \H00
           /\ Runs[1].after.sp = 8
           /\ Len(Runs) >= 2 =>
                 /\ Runs[2].after.pc = 3
                 /\ Runs[2].after.sp = 10

\* Length in bytes of the non-branching instructions stepped first.
FirstLength(op) ==
    CASE op \in {\H00, \H04, \H41} -> 1
      [] op \in {\HC6, \H06} -> 2
      [] op \in {\H32, \H3A, \H01} -> 3

\* C27: on a fresh CPU on which no interrupt was ever requested, the first
\* step of a non-branching instruction ends with PC equal to the
\* instruction's length (1 after NOP, 2 after ADI d8, 3 after STA a16), and
\* ADI 0x42 with A = 0x14 leaves A = 0x56, C = 0, Z = 0, S = 0, P = 1, AC = 0.
C27_FirstStepPcIsLength ==
    (NeverRequested /\ Len(Runs) >= 1
        /\ Fetched(Runs[1]) \in {\H00, \H04, \H41, \HC6, \H06, \H32, \H3A,
                                \H01})
        => LET e == Runs[1]
           IN  /\ ~e.after.panicked
               /\ e.after.pc = FirstLength(Fetched(e))
               /\ (Fetched(e) = \HC6 /\ e.before.acc = \H14
                      /\ Rd(e.before, 1) = \H42)
                     => /\ e.after.acc = \H56
                        /\ FiveFlags(e.after.flag) = <<0, 0, 0, 1, 0>>

\* A step that faulted after it had already changed the CPU or memory.
StoppedPartWay(e) ==
    /\ e.after.panicked
    /\ [e.after EXCEPT !.panicked = FALSE] # e.before

\* C28: no step stops part-way: a step applies all of its instruction's
\* effects or none, so an instruction whose memory address lies at or beyond
\* the end of the buffer never leaves PC advanced or a first byte written
\* while its remaining effects are missing.
C28_StepIsAllOrNothing ==
    \A i \in 1..Len(Runs) : ~StoppedPartWay(Runs[i])


\* The first push of a CPU built over 64 KiB: the step's own instruction
\* left SP at 0 and the pending interrupt is taken.
FirstPushAtTop(e) ==
    /\ e.call = "run_once"
    /\ e.before.len = 65536
    /\ ~e.mid.panicked
    /\ e.mid.sp = 0
    /\ e.mid.interrupted

BranchSteps == 3

\* The address of the jump or call in these runs.
BranchAt == \H04

\* Operand bytes of the jump or call.
BranchBytes == {\H00, \H10, \H34}

\* Stack pointers LXI SP loads: on the instruction's own operand bytes
\* (BranchAt + 3, BranchAt + 4) and clear of them.
BranchStacks == {\H07, \H08, \H20}

\* Flag bytes with S, Z, P and C each set or clear.
BranchFlags ==
    {set_sign_flag(set_zero_flag(set_parity_flag(
         set_carry_flag(FlagDefault, cy), p), z), s) :
        cy \in BOOLEAN, p \in BOOLEAN, z \in BOOLEAN, s \in BOOLEAN}

InitBranch ==
    \E op \in Branches, b1 \in BranchBytes, b2 \in BranchBytes,
       s \in BranchStacks, f \in BranchFlags, oc \in BOOLEAN :
        Constructed(Image(<<\HF3, \H31, \H00, s, op, b1, b2>>), 64, f,
                    ZeroRegisters, 0, oc, BranchSteps, 0)

SpecBranch == InitBranch /\ [][RunOnce]_vars

\* The address formed from the operand bytes of the instruction at c.pc.
OperandTarget(c) ==
    (Rd(c, (c.pc + 2) % 65536) * 256) + Rd(c, (c.pc + 1) % 65536)

\* C31: a conditional jump at p sets PC to (mem[p+2] << 8) | mem[p+1] iff
\* its condition holds (JC/JNC carry, JZ/JNZ zero, JM/JP sign, JPE/JPO
\* parity) and to p + 3 otherwise; JMP always sets PC to the target.
C31_JumpTakenIffCondition ==
    \A i \in 1..Len(Runs) :
        LET e == Runs[i]
            op == Fetched(e)
        IN  (Retired(e) /\ op \in ConditionalJumps \cup {\HC3}) =>
                e.mid.pc =
                    IF op = \HC3 \/ ConditionHolds(op, e.before.flag)
                    THEN OperandTarget(e.before)
                    ELSE (e.before.pc + 3) % 65536

C31_Witness ==
    \E i \in 1..Len(Runs) :
        LET e == Runs[i]
        IN  /\ Retired(e) /\ Fetched(e) = \HEA
            /\ Bit(e.before.flag, 2) = 1
            /\ e.before.pc = BranchAt
            /\ Rd(e.before, BranchAt + 1) = \H34
            /\ Rd(e.before, BranchAt + 2) = \H10
            /\ e.mid.pc = \H1034

\* C32: a taken CALL or Ccc at p lowers SP by 2, stores the return address
\* p + 3 (low byte at SP, high byte at SP + 1) and sets PC to the target
\* formed from the operand bytes as they were before the instruction
\* started, also when the return address is written over those bytes.
C32_CallPushesThenTargets ==
    \A i \in 1..Len(Runs) :
        LET e == Runs[i]
            op == Fetched(e)
        IN  (/\ Retired(e)
             /\ \/ op = \HCD
                \/ op \in ConditionalCalls /\ ConditionHolds(op, e.before.flag))
            => /\ e.mid.sp = (e.before.sp + 65534) % 65536
               /\ TopWord(e.mid) = (e.before.pc + 3) % 65536
               /\ e.mid.pc = OperandTarget(e.before)

\* The high and low byte of the pair a PUSH or POP names: B C, D E, H L,
\* and A F for PSW.
PairHigh(c, op) ==
    IF get_rp_num_2(op) = 3 THEN c.acc ELSE c.registers[get_rp_num_2(op) * 2]

PairLow(c, op) ==
    IF get_rp_num_2(op) = 3 THEN c.flag
    ELSE c.registers[get_rp_num_2(op) * 2 + 1]

\* C33: PUSH rp lowers SP by exactly 2 and leaves mem[SP] = the pair's low
\* byte (C, E, L, or F for PSW) and mem[SP+1] = its high byte (B, D, H, or
\* A); POP rp reads them back in the inverse order and raises SP by 2.
C33_PushPopLayout ==
    \A i \in 1..Len(Runs) :
        LET e == Runs[i]
            op == Fetched(e)
        IN  /\ (Retired(e) /\ op \in Pushes) =>
                  /\ e.mid.sp = (e.before.sp + 65534) % 65536
                  /\ Rd(e.mid, e.mid.sp) = PairLow(e.before, op)
                  /\ Rd(e.mid, (e.mid.sp + 1) % 65536) = PairHigh(e.before, op)
            /\ (Retired(e) /\ op \in Pops) =>
                  /\ e.mid.sp = (e.before.sp + 2) % 65536
                  /\ PairLow(e.mid, op) = Rd(e.before, e.before.sp)
                  /\ PairHigh(e.mid, op)
                        = Rd(e.before, (e.before.sp + 1) % 65536)

C33_Witness ==
    \E i \in 1..Len(Runs) : \E j \in (i + 1)..Len(Runs) :
        LET e == Runs[i]
            g == Runs[j]
        IN  /\ Retired(e) /\ Fetched(e) = \HF5
            /\ e.before.acc = \H9B
            /\ Rd(e.mid, e.mid.sp) = \H02
            /\ Rd(e.mid, e.mid.sp + 1) = \H9B
            /\ Retired(g) /\ Fetched(g) = \HC1
            /\ g.before.sp = e.mid.sp
            /\ g.mid.registers[0] = \H9B
            /\ g.mid.registers[1] = \H02

(***************************************************************************)
(* Register moves at address 0 and XTHL behind DI and LXI SP.              *)
(***************************************************************************)

\* MOV r1, r2 for every destination and source; 0x76 is HLT.
MoveForms == (64..127) \ {\H76}

\* The byte at the address HL holds before the move.
MoveCells == {\H00, \H31, \HFF}

\* Bytes of H, L and of the two stack cells XTHL exchanges.
XthlBytes == {\H00, \H12, \HFF}

\* Stack pointers LXI SP loads before XTHL.
XthlStacks == {\H20, \H3E}

\* DI; LXI SP, s; XTHL; XTHL with t0, t1 in the stack cells s, s + 1.
XthlImage(s, t0, t1) ==
    Image([i \in 1..(s + 2) |->
              CASE i = 1 -> \HF3
                [] i = 2 -> \H31
                [] i = 4 -> s
                [] i = 5 \/ i = 6 -> \HE3
                [] i = s + 1 -> t0
                [] i = s + 2 -> t1
                [] OTHER -> 0])

InitMove ==
    \/ \E op \in MoveForms, m \in MoveCells, a \in Accs, cy \in BOOLEAN,
          len \in Lens, oc \in BOOLEAN :
          Constructed(OpImage(op, m), len, OpFlag(cy, FALSE), SomeRegisters,
                      a, oc, MaxSteps, 0)
    \/ \E s \in XthlStacks, h \in XthlBytes, l \in XthlBytes,
          t0 \in XthlBytes, t1 \in XthlBytes, oc \in BOOLEAN :
          Constructed(XthlImage(s, t0, t1), 64, FlagDefault,
                      [ZeroRegisters EXCEPT ![4] = h, ![5] = l], 0, oc,
                      MaxSteps, 0)

SpecMove == InitMove /\ [][RunOnce]_vars

\* The value MOV reads: the byte at HL, A, or a register.
MoveSource(c, r) ==
    IF r = 6 THEN Rd(c, PairHL(c)) ELSE IF r = 7 THEN c.acc
    ELSE c.registers[r]

\* The CPU with v in the destination of a MOV and nothing else changed.
MoveInto(c, r, v) ==
    IF r = 6
    THEN [c EXCEPT !.data =
             IF v = 0
             THEN [x \in (DOMAIN c.data) \ {PairHL(c)} |-> c.data[x]]
             ELSE (PairHL(c) :> v) @@ c.data]
    ELSE IF r = 7 THEN [c EXCEPT !.acc = v]
    ELSE [c EXCEPT !.registers[r] = v]

\* C34: MOV r1, r2 copies the source value into the destination and changes
\* nothing else except PC + 1: no flag, the source unchanged, nothing but
\* PC when r1 = r2, and only mem[HL] written by MOV M, r.
C34_MoveCopiesOnly ==
    \A i \in 1..Len(Runs) :
        LET e == Runs[i]
            op == Fetched(e)
            dst == get_dest_num(op)
            src == get_src_num(op)
        IN  (/\ ~e.before.halted
             /\ e.before.pc < e.before.len
             /\ op \in MoveForms
             /\ (dst = 6 \/ src = 6) => PairHL(e.before) < e.before.len)
            => e.mid = MoveInto([e.before EXCEPT !.pc = (e.before.pc + 1) % 65536],
                                dst, MoveSource(e.before, src))


\* C35: XTHL exchanges L with mem[SP] and H with mem[SP+1] and leaves SP
\* unchanged; executing it twice in a row restores H, L and both stack
\* bytes.
C35_XthlExchanges ==
    \A i \in 1..Len(Runs) :
        LET e == Runs[i]
            s == e.before.sp
        IN  (Retired(e) /\ Fetched(e) = \HE3) =>
                /\ e.mid.sp = s
                /\ e.mid.registers[5] = Rd(e.before, s)
                /\ e.mid.registers[4] = Rd(e.before, (s + 1) % 65536)
                /\ Rd(e.mid, s) = e.before.registers[5]
                /\ Rd(e.mid, (s + 1) % 65536) = e.before.registers[4]
                /\ \A j \in {i + 1} \cap (1..Len(Runs)) :
                      LET g == Runs[j]
                      IN  (/\ Retired(g) /\ Fetched(g) = \HE3
                           /\ g.before = e.mid) =>
                              /\ g.mid.registers = e.before.registers
                              /\ g.mid.data = e.before.data
                              /\ g.mid.sp = s

C35_Witness ==
    \E i \in 1..Len(Runs) : \E j \in {i + 1} \cap (1..Len(Runs)) :
        LET e == Runs[i]
            g == Runs[j]
        IN  /\ Retired(e) /\ Fetched(e) = \HE3
            /\ Retired(g) /\ Fetched(g) = \HE3
            /\ g.before = e.mid
            /\ e.before.registers[4] = \H12
            /\ e.before.registers[5] = \HFF
            /\ Rd(e.before, e.before.sp) = \H00
            /\ Rd(e.before, e.before.sp + 1) = \HFF
            /\ e.mid.registers[4] = \HFF
            /\ e.mid.registers[5] = \H00
            /\ Rd(e.mid, e.mid.sp) = \HFF
            /\ g.mid.registers[4] = \H12

(***************************************************************************)
(* Programs of EI, DI, NOP and HLT stepped while the driver requests       *)
(* interrupts at any point.                                                *)
(***************************************************************************)
LatchSteps == 4

LatchRequests == 2

\* Vectors the driver requests; 1 and 2 lead back into the program.
LatchVectors == {1, 2, 16}

LatchPrograms ==
    {<<\HFB, \H00, \HF3, \H00>>, <<\H00, \HFB, \HFB>>, <<\HF3, \H00, \HFB>>,
     <<\HFB, \H76>>, <<\HF3, \HF3, \H00>>, <<\H00, \H00, \H00>>}

InitLatch ==
    \E prog \in LatchPrograms, oc \in BOOLEAN :
        Constructed(Image(prog), 64, FlagDefault, ZeroRegisters, 0, oc,
                    LatchSteps, LatchRequests)

NextLatch ==
    \/ RunOnce
    \/ \E addr \in LatchVectors : SendInterrupt(addr)

SpecLatch == InitLatch /\ [][NextLatch]_vars

\* A step whose handle_interrupt acted: the state after it differs from
\* the state the instruction left.
AckTaken(e) == e.call = "run_once" /\ e.after # e.mid

\* C36: on a CPU on which send_interrupt has never been called, no step
\* pushes PC and replaces it with the pending vector.
C36_NoVectorWithoutRequest ==
    \A i \in 1..Len(trace) :
        Requested(i) = -1 => ~AckTaken(trace[i])

EiExecuted(e) == Retired(e) /\ Fetched(e) = \HFB

DiExecuted(e) == Retired(e) /\ Fetched(e) = \HF3

\* C37: a step acknowledges only if interrupts are enabled at the end of its
\* instruction, every acknowledgment disables them, so between any two
\* acknowledgments an EI has been executed; after DI nothing is
\* acknowledged until an EI executes, however many requests are made.
C37_OneAcknowledgePerEnable ==
    \A i \in 1..Len(Runs) :
        LET e == Runs[i]
        IN  /\ AckTaken(e) => e.mid.interrupted
            /\ (AckTaken(e) /\ ~e.after.panicked) => ~e.after.interrupted
            /\ \A j \in (i + 1)..Len(Runs) :
                  ((AckTaken(e) \/ DiExecuted(e)) /\ AckTaken(Runs[j])) =>
                      \E k \in (i + 1)..j : EiExecuted(Runs[k])

C37_Witness ==
    /\ Len(Runs) = 4
    /\ AckTaken(Runs[1]) /\ AckTaken(Runs[2])
    /\ EiExecuted(Runs[2])
    /\ DiExecuted(Runs[3])
    /\ ~AckTaken(Runs[4])
    /\ trace[Len(trace)].call = "run_once"
    /\ trace[Len(trace) - 1].call = "send_interrupt"
    /\ ~panicked

\* C38: send_interrupt changes only the pending vector, and an
\* acknowledgment vectors to the most recently requested address; earlier
\* requests are lost.
C38_LatchHoldsLastVector ==
    \A i \in 1..Len(trace) :
        LET e == trace[i]
        IN  /\ e.call = "send_interrupt" =>
                  e.after = [e.before EXCEPT !.interrupted_addr = e.arg]
            /\ (AckTaken(e) /\ ~e.after.panicked /\ Requested(i) # -1) =>
                  e.after.pc = Requested(i)

C38_Witness ==
    \E i \in 3..Len(trace) :
        /\ trace[i - 2].call = "send_interrupt" /\ trace[i - 2].arg = 16
        /\ trace[i - 1].call = "send_interrupt" /\ trace[i - 1].arg = 2
        /\ trace[i - 1].after.pc = trace[i - 1].before.pc
        /\ AckTaken(trace[i]) /\ ~trace[i].after.panicked
        /\ trace[i].mid.pc = 1
        /\ trace[i].after.pc = 2

\* C39: ADD..CMP in register form and ADI..CPI change only A, F and PC:
\* B..L, SP, every memory byte, halted and the interrupt state are
\* unchanged, CMP and CPI also leave A unchanged, and PC advances by 1 for
\* the register form and by 2 for the immediate form.
C39_AluChangesOnlyAccFlagsPc ==
    \A i \in 1..Len(Runs) :
        LET e == Runs[i]
            op == Fetched(e)
            k == IF op \in AluImmediateForms THEN 2 ELSE 1
        IN  (Retired(e) /\ op \in AluAnySource \cup AluImmediateForms) =>
                /\ e.mid = [e.before EXCEPT !.acc = e.mid.acc,
                                            !.flag = e.mid.flag,
                                            !.pc = (e.before.pc + k) % 65536]
                /\ (op \in 184..191 \/ op = \HFE) => e.mid.acc = e.before.acc

C39_Witness ==
    \E i \in 1..Len(Runs) :
        LET e == Runs[i]
        IN  /\ Retired(e) /\ Fetched(e) = \HFE
            /\ e.before.acc = \H0A
            /\ Rd(e.before, 1) = \H0F
            /\ e.mid.acc = \H0A
            /\ e.mid.flag # e.before.flag
            /\ e.mid.pc = 2
            /\ e.mid.registers = e.before.registers

(***************************************************************************)
(* Stack and program-counter arithmetic at the two ends of a 64 KiB        *)
(* address space: DI; LXI SP; one stack instruction, and an instruction    *)
(* fetched at 0xFFFF.                                                      *)
(***************************************************************************)
WrapSteps == 3

\* High and low byte of the stack pointers LXI SP loads.
WrapStacks == {<<\H00, \H00>>, <<\H00, \H01>>, <<\HFF, \HFE>>, <<\HFF, \HFF>>}

\* PUSH B, PUSH PSW, POP B, POP PSW, INX SP, DCX SP.
WrapForms == {\HC5, \HF5, \HC1, \HF1, \H33, \H3B}

InitWrap ==
    \/ \E s \in WrapStacks, op \in WrapForms, regs \in RegisterFiles,
          a \in Accs, oc \in BOOLEAN :
          Constructed(Image(<<\HF3, \H31, s[1], s[2], op>>), 65536,
                      FlagDefault, regs, a, oc, WrapSteps, 0)
    \/ \E op \in {\H04, \H3C}, regs \in RegisterFiles, oc \in BOOLEAN :
          Constructed(Image(<<\HF3, \HC3, \HFF, \HFF>>) @@ (65535 :> op),
                      65536, FlagDefault, regs, 0, oc, WrapSteps, 0)

SpecWrap == InitWrap /\ [][RunOnce]_vars

\* What the instruction adds to SP.
SpDelta(op) ==
    CASE op \in {\HC5, \HF5} -> 65534
      [] op \in {\HC1, \HF1} -> 2
      [] op = \H33 -> 1
      [] op = \H3B -> 65535
      [] OTHER -> 0

\* C40: SP and PC arithmetic is modulo 2^16 and never faults: a push with
\* SP = 0 or 1 wraps SP to the top of the address space, a pop with
\* SP = 0xFFFF or 0xFFFE wraps it to 0 or 1, INX SP at 0xFFFF gives 0, DCX SP
\* at 0 gives 0xFFFF, and an instruction at PC = 0xFFFF leaves PC wrapped.
C40_PointersWrap ==
    \A i \in 1..Len(Runs) :
        LET e == Runs[i]
            op == Fetched(e)
        IN  (~e.before.halted /\ op \in WrapForms \cup {\H04, \H3C}) =>
                /\ ~e.mid.panicked
                /\ e.mid.sp = (e.before.sp + SpDelta(op)) % 65536
                /\ e.mid.pc = (e.before.pc + 1) % 65536

====
